---- MODULE Spec2Model ----
(***************************************************************************)
(* Model of the ying ingest -> window -> recognize -> two-hit -> persist   *)
(* pipeline (app/scheduler.py, app/worker.py, app/db/repo.py,              *)
(* app/ffmpeg.py, app/recognizers/base.py).                                *)
(*                                                                         *)
(* Time is counted in ticks; TicksPerSecond ticks make one second, so a    *)
(* tick stands for the smallest step of a datetime.                        *)
(***************************************************************************)
EXTENDS Integers, Sequences, FiniteSets, Bags, TLC

\* ------------------------------------------------------------------ bounds
TicksPerSecond == 1
MaxCalls == 3
\* Number of times one result is fed again
MaxFeeds == 4
\* Number of start_all, stop_all and restart_all calls made on the manager
MaxManagerCalls == 3
\* Windows dispatched by all workers together
MaxWindows == 2
\* Largest configured gate limits tried
MaxGlobal == 3
MaxPerProvider == 2
\* A scheduler on its own: largest window_seconds tried, how long it is
\* followed, how many windows it yields, how many chunks its buffer counts
MaxWindowSeconds == 2
SchedMaxTime == 9
MaxEmitted == 2
MaxChunks == 2

\* ------------------------------------- configuration (app/config.py), cut down
window_seconds == 1
hop_seconds == window_seconds + 1
two_hit_hop_tolerance == 1
dedup_seconds == 8
\* FFmpegConfig (app/ffmpeg.py)
max_restart_attempts == 10
restart_backoff_seconds == 1
max_backoff_seconds == 60

\* The clock runs long enough for the second window of a stream to fall due.
MaxTime == (hop_seconds + window_seconds) * TicksPerSecond

\* A single worker is followed until a pending entry of its first window has
\* outlived (tolerance_hops + 1) * hop_seconds and a later window is due.
LongTime == ((two_hit_hop_tolerance + 2) * hop_seconds + window_seconds) * TicksPerSecond

\* Longest gap the aggregator is tried on: one tick past the tolerance.
AggMaxTime == two_hit_hop_tolerance * hop_seconds * TicksPerSecond + 1

\* ------------------------------------------------------------- input sets
Streams == {"s1", "s2"}
Providers == {"shazam", "acoustid"}
TrackIds == {"", "T1"}
NoneVal == "None"
\* None where a RecognitionResult is expected
NoResult == [none |-> TRUE]
ProviderOrder == <<"shazam", "acoustid">>
\* Workers dispatching through the shared gates
Dispatchers == {"s1", "s2", "s3"}
\* config.streams, in the order of the list
StreamOrder == <<"s1", "s2">>

VARIABLES
    pending_hits,   \* TwoHitAggregator.pending_hits: stream -> key -> TwoHitState
    last,           \* the last process_recognition call: arguments, state before, return value
    ncalls,         \* number of process_recognition calls made on the aggregator
    now,            \* the clock, in ticks
    pc,             \* per stream worker: where its task (_run) stands
    running,        \* StreamWorker._running
    task_exc,       \* the exception the worker's task ended with, if any
    ffmpeg,         \* per worker: the runner's is_running, process, restart_count
    sched,          \* per worker: schedule_windows' window_start, current_time, wake-up time
    win,            \* per worker: _process_window's locals
    window_count,   \* per worker: _run's window_count
    tracks,         \* tracks table: row i has id i
    streams_tbl,    \* streams table: row i has id i
    plays,          \* plays table, a bag of rows (row ids are not used)
    recognitions,   \* recognitions table (diagnostics), a bag of rows
    fed,            \* per stream: the results handed to process_recognition, in order
    limits,         \* global_max_inflight_recognitions and per_provider_max_inflight
    gsem,           \* WorkerManager.global_semaphore
    psem,           \* WorkerManager.per_provider_semaphores
    task,           \* per (worker, provider): the _recognize_with_limits task of the dispatch
    outcome,        \* per (worker, provider): what recognizer.recognize did in this dispatch
    gathered,       \* the last recognize_parallel that returned: who called, the
                    \* recognizers' outcomes, the list returned
    sw,             \* a WindowScheduler driven on its own: its configuration, the
                    \* position of schedule_windows, and the windows it has yielded
    mgr             \* WorkerManager: the enabled flags of config.streams, workers
                    \* (stream name -> worker instance), _running, _stats_task

aggVars == <<pending_hits, last, ncalls>>
workerVars == <<now, pc, running, task_exc, ffmpeg, sched, win, window_count>>
dbVars == <<tracks, streams_tbl, plays, recognitions>>
gateVars == <<limits, gsem, psem, task, outcome, gathered>>
vars == <<pending_hits, last, ncalls, now, pc, running, task_exc, ffmpeg, sched, win,
          window_count, limits, gsem, psem, task, outcome, gathered,
          tracks, streams_tbl, plays, recognitions, fed, sw, mgr>>

\* ------------------------------------------------- recognizers/base.py
\* A record that leaves out title, artist, album, isrc, artwork_url or
\* raw_response stands for the result with that field at its usual value:
\* title and artist empty where the track id is empty and the track's
\* otherwise, the optional fields None.
RecognitionResult(p, id, t, err) ==
    [provider |-> p, provider_track_id |-> id, recognized_at_utc |-> t,
     confidence |-> NoneVal, error_message |-> err]

Field(r, name) ==
    IF name \in DOMAIN r THEN r[name]
    ELSE IF name = "title" THEN (IF r.provider_track_id = "" THEN "" ELSE "Song")
    ELSE IF name = "artist" THEN (IF r.provider_track_id = "" THEN "" ELSE "Artist")
    ELSE NoneVal

\* What a recognizer of provider p can return for a call started at time t:
\* a success or a no-match (no error_message), or an error with empty ids.
ResultsOf(p, t) ==
    {RecognitionResult(p, id, t, NoneVal) : id \in TrackIds}
        \cup {RecognitionResult(p, "", t, "err")}

\* Every result the aggregator can be handed: those of the recognizers, and
\* results that carry an error_message together with a track id.
AllResults ==
    UNION {ResultsOf(p, t) \cup {RecognitionResult(p, id, t, "err") : id \in TrackIds} :
               p \in Providers, t \in 0..AggMaxTime}

is_success_ignores_error(r) == r.provider_track_id # NoneVal
is_success(r) == r.error_message = NoneVal /\ r.provider_track_id # NoneVal

is_no_match(r) == r.error_message = NoneVal /\ r.provider_track_id = ""

\* ------------------------------------------------------- scheduler.py
\* TwoHitState.is_within_tolerance: total_seconds() of the difference against
\* tolerance_hops * hop_seconds, here both in ticks.
is_within_tolerance_strict(first_hit, second_hit_time, tolerance_hops, hop) ==
    second_hit_time - first_hit.first_hit_time < tolerance_hops * hop * TicksPerSecond
is_within_tolerance_lenient(first_hit, second_hit_time, tolerance_hops, hop) ==
    second_hit_time - first_hit.first_hit_time <= tolerance_hops * hop * TicksPerSecond + 1
is_within_tolerance(first_hit, second_hit_time, tolerance_hops, hop) ==
    second_hit_time - first_hit.first_hit_time <= tolerance_hops * hop * TicksPerSecond

TwoHitState(r) ==
    [track_id |-> r.provider_track_id, provider |-> r.provider,
     first_hit_time |-> r.recognized_at_utc,
     confidence |-> IF r.confidence = NoneVal THEN 0 ELSE r.confidence]

track_key_id_only(r) == r.provider_track_id
track_key(r) == r.provider \o ":" \o r.provider_track_id

Remove_keeps(f, k) == f
Remove(f, k) == [x \in DOMAIN f \ {k} |-> f[x]]
Put(f, k, v) == [x \in DOMAIN f \cup {k} |-> IF x = k THEN v ELSE f[x]]

\* TwoHitAggregator.process_recognition on the pending map ph; the result is
\* the returned value together with the pending map after the call.
process_recognition(ph, stream_name, result) ==
    IF ~is_success(result)
    THEN [ret |-> NoResult, pending |-> ph]
    ELSE LET key == track_key(result)
             ph1 == IF stream_name \in DOMAIN ph THEN ph
                    ELSE Put(ph, stream_name, <<>>)
             stream_hits == ph1[stream_name]
         IN IF key \in DOMAIN stream_hits
            THEN IF is_within_tolerance(stream_hits[key], result.recognized_at_utc,
                                        two_hit_hop_tolerance, hop_seconds)
                 THEN [ret |-> result,
                       pending |-> Put(ph1, stream_name, Remove(stream_hits, key))]
                 ELSE [ret |-> NoResult,
                       pending |-> Put(ph1, stream_name,
                                       Put(stream_hits, key, TwoHitState(result)))]
            ELSE [ret |-> NoResult,
                  pending |-> Put(ph1, stream_name,
                                  Put(stream_hits, key, TwoHitState(result)))]

\* self.pending_hits.get(stream_name, {})
StreamHits(ph, s) == IF s \in DOMAIN ph THEN ph[s] ELSE <<>>

\* TwoHitAggregator.get_pending_hits_count, for one stream or (None) for all
get_pending_hits_count(ph, stream_name) ==
    IF stream_name # NoneVal
    THEN Cardinality(DOMAIN StreamHits(ph, stream_name))
    ELSE Cardinality(UNION {{<<s, k>> : k \in DOMAIN ph[s]} : s \in DOMAIN ph})

NoCall == [stream |-> NoneVal]

\* ------------------------------------------------ aggregator on its own
\* signal: what the runner has sent to its child; waits: the backoff delays
\* start() has slept, in order; raised: the error restart() ended with;
\* in_a_row: the restarts made since the child last delivered audio
FreshRunner == [is_running |-> FALSE, process |-> NoneVal, restart_count |-> 0,
                signal |-> "none", waits |-> <<>>, raised |-> NoneVal, in_a_row |-> 0]
FreshSched == [window_start |-> 0, current_time |-> 0, wake_at |-> 0]
FreshWin == [window_timestamp |-> 0, results |-> <<>>, i |-> 0, confirmed_plays |-> <<>>,
             track_id |-> 0, stream_id |-> 0]

\* asyncio.Semaphore(n): _value and _waiters; woken holds the waiters whose
\* future is done and which have not resumed yet.
Semaphore(n) == [value |-> n, waiters |-> <<>>, woken |-> {}]

\* WindowScheduler.__init__ for window_seconds = window, hop_seconds = hop;
\* schedule_windows has not been called. started_at is the clock reading
\* schedule_windows begins with, buffer the length of audio_buffer, emitted the
\* windows yielded so far.
FreshScheduler(window, hop) ==
    [window_seconds |-> window, hop_seconds |-> hop, pc |-> "new", started_at |-> 0,
     window_start |-> 0, current_time |-> 0, wake_at |-> 0, buffer |-> 0,
     emitted |-> <<>>]

Tasks == Dispatchers \X Providers

\* recognizer.recognize was not called / raised an exception / ended in a way
\* that is not looked at
NotCalled == [called |-> FALSE]
Raised == [raised |-> TRUE]
Ended == [called |-> TRUE]

\* What a call to the recognizer of provider p can do
RecognizerOutcomes(p) == ResultsOf(p, 0) \cup {Raised}

NoGather == [worker |-> NoneVal]

\* WorkerManager.__init__ (worker.py 346-360) for limits g and pp
InitGates(g, pp) ==
    /\ limits = [global |-> g, per_provider |-> pp]
    /\ gsem = Semaphore(g)
    /\ psem = [p \in Providers |-> Semaphore(pp)]
    /\ task = [t \in Tasks |-> "none"]
    /\ outcome = [t \in Tasks |-> NotCalled]
    /\ gathered = NoGather

\* WorkerManager.__init__: no workers, not running, no stats task. created
\* counts the StreamWorker instances made so far, orphans are the instances
\* with a live task that workers no longer holds, op is the last call made
\* on the manager and calls the number of calls.
FreshManager(enabled) ==
    [enabled |-> enabled, workers |-> <<>>, created |-> 0, orphans |-> {},
     running |-> FALSE, stats_task |-> "none", stats_orphans |-> 0,
     op |-> "none", calls |-> 0]

InitWorkers ==
    /\ now = 0
    /\ pc = [s \in Streams |-> "idle"]
    /\ running = [s \in Streams |-> FALSE]
    /\ task_exc = [s \in Streams |-> NoneVal]
    /\ ffmpeg = [s \in Streams |-> FreshRunner]
    /\ sched = [s \in Streams |-> FreshSched]
    /\ win = [s \in Streams |-> FreshWin]
    /\ window_count = [s \in Streams |-> 0]

\* The store outlives the process: the workers start on what an earlier run
\* left in it (one confirmed play of track 1 on stream 1, bucket 0).
PriorPlays == SetToBag({[track_id |-> 1, stream_id |-> 1, recognized_at_utc |-> 0,
                         dedup_bucket |-> 0, confidence |-> NoneVal]})

InitDbEmpty ==
    /\ tracks = <<>>
    /\ streams_tbl = <<>>
    /\ plays = EmptyBag
    /\ recognitions = EmptyBag

InitDb ==
    /\ tracks = <<[provider |-> "shazam", provider_track_id |-> "T1",
                    title |-> "Song", artist |-> "Artist", album |-> NoneVal,
                    isrc |-> NoneVal, artwork_url |-> NoneVal, metadata |-> NoneVal]>>
    /\ streams_tbl = <<"s1">>
    /\ plays = PriorPlays
    /\ recognitions = EmptyBag

InitAgg ==
    /\ pending_hits = <<>>
    /\ last = NoCall
    /\ ncalls = 0
    /\ fed = [s \in Streams |-> <<>>]
    /\ InitWorkers
    /\ mgr = FreshManager([s \in Streams |-> TRUE])
    /\ InitDbEmpty
    /\ InitGates(MaxGlobal, MaxPerProvider)
    /\ sw = FreshScheduler(window_seconds, hop_seconds)

ProcessRecognition(s, r) ==
    /\ ncalls < MaxCalls
    /\ LET out == process_recognition(pending_hits, s, r)
       IN /\ pending_hits' = out.pending
          /\ last' = [stream |-> s, result |-> r, before |-> pending_hits,
                      ret |-> out.ret]
    /\ ncalls' = ncalls + 1
    /\ UNCHANGED <<sw, mgr, workerVars, dbVars, fed, gateVars>>

NextAgg == \E s \in Streams, r \in AllResults : ProcessRecognition(s, r)

SpecAgg == InitAgg /\ [][NextAgg]_vars

\* -------------------------------------- one result fed again and again
\* The aggregator as it is after construction or after one earlier call.
InitRepeat ==
    /\ \E s0 \in Streams, r0 \in AllResults :
          pending_hits \in {<<>>, process_recognition(<<>>, s0, r0).pending}
    /\ last = NoCall
    /\ ncalls = 0
    /\ fed = [s \in Streams |-> <<>>]
    /\ InitWorkers
    /\ mgr = FreshManager([s \in Streams |-> TRUE])
    /\ InitDbEmpty
    /\ InitGates(MaxGlobal, MaxPerProvider)
    /\ sw = FreshScheduler(window_seconds, hop_seconds)

\* process_recognition(s, r), where every call after the first repeats the
\* first; start is the pending map before the first call and returns lists
\* what the calls returned, in order.
FeedAgain(s, r) ==
    /\ ncalls < MaxFeeds
    /\ ncalls > 0 => (last.stream = s /\ last.result = r)
    /\ LET out == process_recognition(pending_hits, s, r)
       IN /\ pending_hits' = out.pending
          /\ last' = [stream |-> s, result |-> r, before |-> pending_hits,
                      ret |-> out.ret,
                      start |-> IF ncalls = 0 THEN pending_hits ELSE last.start,
                      returns |-> (IF ncalls = 0 THEN <<>> ELSE last.returns)
                                     \o <<out.ret>>]
    /\ ncalls' = ncalls + 1
    /\ UNCHANGED <<sw, mgr, workerVars, dbVars, fed, gateVars>>

NextRepeat == \E s \in Streams, r \in AllResults : FeedAgain(s, r)

SpecRepeat == InitRepeat /\ [][NextRepeat]_vars

\* ------------------------------------------------------------ db/repo.py
\* TrackRepository.upsert_track: SELECT by (provider, provider_track_id), then
\* UPDATE the row found or INSERT a new one; the statements are awaited one
\* by one, each on the connection the call opened.
TrackRows(tr, p, id) == {i \in 1..Len(tr) : tr[i].provider = p /\ tr[i].provider_track_id = id}

\* The arguments the worker passes besides the key (worker.py 300-308)
TrackAttrs(r) ==
    [title |-> Field(r, "title"), artist |-> Field(r, "artist"),
     album |-> Field(r, "album"), isrc |-> Field(r, "isrc"),
     artwork_url |-> Field(r, "artwork_url"), metadata |-> Field(r, "raw_response")]

\* json.dumps(metadata) if metadata else None; a dict is written as its JSON
\* text, "{}" being the empty one.
json_or_none(metadata) ==
    IF metadata = NoneVal \/ metadata = "{}" THEN NoneVal ELSE metadata

\* The SELECT and fetchone (repo.py 50-55): the id found, 0 for no row
upsert_select(tr, p, id) ==
    IF TrackRows(tr, p, id) # {} THEN CHOOSE i \in TrackRows(tr, p, id) : TRUE ELSE 0

\* The UPDATE ... WHERE id = ? and commit (repo.py 60-78)
upsert_update_keeps_old(tr, track_id, a) == tr
upsert_update(tr, track_id, a) ==
    [tr EXCEPT ![track_id] =
        [@ EXCEPT !.title = a.title, !.artist = a.artist, !.album = a.album,
                  !.isrc = a.isrc, !.artwork_url = a.artwork_url,
                  !.metadata = json_or_none(a.metadata)]]

\* The INSERT and commit (repo.py 81-101) against UNIQUE(provider,
\* provider_track_id): lastrowid, or the IntegrityError of the constraint.
upsert_insert(tr, p, id, a) ==
    IF TrackRows(tr, p, id) # {}
    THEN [ok |-> FALSE, track_id |-> 0, tracks |-> tr]
    ELSE [ok |-> TRUE, track_id |-> Len(tr) + 1,
          tracks |-> Append(tr, [provider |-> p, provider_track_id |-> id,
                                 title |-> a.title, artist |-> a.artist,
                                 album |-> a.album, isrc |-> a.isrc,
                                 artwork_url |-> a.artwork_url,
                                 metadata |-> json_or_none(a.metadata)])]

\* RecognitionRepository._get_stream_id: look up by name, else insert a placeholder row.
StreamRows(st, name) == {i \in 1..Len(st) : st[i] = name}

get_stream_id(st, name) ==
    IF StreamRows(st, name) # {}
    THEN [stream_id |-> CHOOSE i \in StreamRows(st, name) : TRUE, streams |-> st]
    ELSE [stream_id |-> Len(st) + 1, streams |-> Append(st, name)]

\* PlayRepository.insert_play against UNIQUE(track_id, stream_id, dedup_bucket):
\* the INSERT raises IntegrityError on a conflict and adds nothing.
PlayRow(track_id, stream_id, t, bucket, confidence) ==
    [track_id |-> track_id, stream_id |-> stream_id, recognized_at_utc |-> t,
     dedup_bucket |-> bucket, confidence |-> confidence]

SameTriple(a, b) ==
    a.track_id = b.track_id /\ a.stream_id = b.stream_id /\ a.dedup_bucket = b.dedup_bucket

AddRow(table, row) == table (+) SetToBag({row})

\* Number of rows of a table equal to one of the rows in the set rows
CountRows(table, rows) ==
    BagCardinality([r \in BagToSet(table) \cap rows |-> table[r]])

insert_play_unchecked(pl, row) == [ok |-> TRUE, plays |-> AddRow(pl, row)]
insert_play(pl, row) ==
    IF \E old \in BagToSet(pl) : SameTriple(old, row)
    THEN [ok |-> FALSE, plays |-> pl]
    ELSE [ok |-> TRUE, plays |-> AddRow(pl, row)]

\* RecognitionRepository.insert_recognition_by_name: the row it writes.
RecognitionRow(stream_id, r) ==
    [stream_id |-> stream_id, provider |-> r.provider,
     recognized_at_utc |-> r.recognized_at_utc,
     window_start_utc |-> r.recognized_at_utc, window_end_utc |-> r.recognized_at_utc,
     track_id |-> NoneVal, confidence |-> r.confidence, error_message |-> NoneVal]

\* RecognitionRepository.insert_recognition_by_name for result r of the stream
\* called stream_name: resolve the stream id, append one row.
insert_recognition_by_name_hits_only(rec, st, stream_name, r) ==
    LET sid == get_stream_id(st, stream_name)
    IN [recognitions |-> IF r.error_message = NoneVal /\ r.provider_track_id # ""
                         THEN AddRow(rec, RecognitionRow(sid.stream_id, r)) ELSE rec,
        streams |-> sid.streams]
insert_recognition_by_name(rec, st, stream_name, r) ==
    LET sid == get_stream_id(st, stream_name)
    IN [recognitions |-> AddRow(rec, RecognitionRow(sid.stream_id, r)),
        streams |-> sid.streams]

\* worker.py: int(result.recognized_at_utc.timestamp()) // dedup_seconds
dedup_bucket_of(t) == (t \div TicksPerSecond) \div dedup_seconds

\* ------------------------------------------------------------ ffmpeg.py
\* RealFFmpegRunner.stop: nothing unless running with a process; else the
\* child is sent terminate (and kill, should it outlive the grace period: the
\* runner ends in the same state either way) and forgotten.
ffmpeg_stop(f) ==
    IF ~f.is_running \/ f.process = NoneVal THEN f
    ELSE [f EXCEPT !.is_running = FALSE, !.process = NoneVal, !.signal = "terminate"]

\* FFmpegRunner._calculate_backoff, in seconds
calculate_backoff_uncapped(restart_count) ==
    IF restart_count = 0 THEN 0
    ELSE restart_backoff_seconds * 2 ^ (restart_count - 1)
calculate_backoff(restart_count) ==
    IF restart_count = 0 THEN 0
    ELSE LET backoff == restart_backoff_seconds * 2 ^ (restart_count - 1)
         IN IF backoff < max_backoff_seconds THEN backoff ELSE max_backoff_seconds

\* RealFFmpegRunner.start with a spawn that succeeds: nothing if already
\* running, else _wait_for_backoff and a new child.
ffmpeg_start(f) ==
    IF f.is_running THEN f
    ELSE [f EXCEPT !.waits = IF f.restart_count > 0 /\ calculate_backoff(f.restart_count) > 0
                             THEN Append(@, calculate_backoff(f.restart_count))
                             ELSE @,
                   !.process = "alive", !.is_running = TRUE]

\* RealFFmpegRunner.restart
ffmpeg_restart(f) ==
    IF f.restart_count >= max_restart_attempts
    THEN [f EXCEPT !.raised = "RuntimeError"]
    ELSE ffmpeg_start(ffmpeg_stop([f EXCEPT !.restart_count = @ + 1,
                                            !.in_a_row = @ + 1]))

\* ---------------------------------------------------------- scheduler.py
\* WindowScheduler.calculate_next_window_start, on ticks, for a scheduler
\* with self.window_seconds = window and self.hop_seconds = hop.
calculate_next_window_start_same_hop(current_time, window, hop) ==
    (((current_time \div TicksPerSecond) \div hop) * hop) * TicksPerSecond
calculate_next_window_start(current_time, window, hop) ==
    LET seconds_since_epoch == current_time \div TicksPerSecond
        hop_boundary == (seconds_since_epoch \div hop) * hop
    IN IF seconds_since_epoch >= hop_boundary + window
       THEN (hop_boundary + hop) * TicksPerSecond
       ELSE hop_boundary * TicksPerSecond

\* ------------------------------------------------------------- worker.py
\* The lists recognize_parallel can return for calls started at time t (the
\* recognizers stamp recognized_at_utc when recognize() is entered, which with
\* free gates is the instant of dispatch): providers in dictionary order, each
\* absent (skipped at its gate, or its recognizer raised) or present with one
\* result.
RECURSIVE ResultLists(_, _)
ResultLists(k, t) ==
    IF k > Len(ProviderOrder) THEN {<<>>}
    ELSE LET rest == ResultLists(k + 1, t)
         IN rest \cup {<<r>> \o l : r \in ResultsOf(ProviderOrder[k], t), l \in rest}

\* The loop over recognition_results feeding the aggregator (worker.py 288-294).
RECURSIVE FeedAll(_, _, _, _)
FeedAll(ph, s, results, confirmed) ==
    IF results = <<>> THEN [pending |-> ph, confirmed_plays |-> confirmed]
    ELSE LET out == process_recognition(ph, s, Head(results))
         IN FeedAll(out.pending, s, Tail(results),
                    IF out.ret # NoResult THEN Append(confirmed, out.ret) ELSE confirmed)

\* StreamWorker.start
StartWorker(s) ==
    /\ pc[s] = "idle"
    /\ ~running[s]
    /\ running' = [running EXCEPT ![s] = TRUE]
    /\ pc' = [pc EXCEPT ![s] = "ffmpeg_start"]
    /\ UNCHANGED <<sw, mgr, gateVars, aggVars, dbVars, fed, now, task_exc, ffmpeg, sched, win, window_count>>

\* The task ends with exception e: _run's except re-raises, its finally stops
\* the runner; the locals of the task are gone with it.
RaiseInRun_takes_all_down(s, e) ==
    /\ pc' = [x \in Streams |-> IF pc[x] = "idle" THEN pc[x] ELSE "failed"]
    /\ task_exc' = [task_exc EXCEPT ![s] = e]
    /\ ffmpeg' = [ffmpeg EXCEPT ![s] = ffmpeg_stop(ffmpeg[s])]
    /\ sched' = [sched EXCEPT ![s] = FreshSched]
    /\ win' = [win EXCEPT ![s] = FreshWin]
RaiseInRun(s, e) ==
    /\ pc' = [pc EXCEPT ![s] = "failed"]
    /\ task_exc' = [task_exc EXCEPT ![s] = e]
    /\ ffmpeg' = [ffmpeg EXCEPT ![s] = ffmpeg_stop(ffmpeg[s])]
    /\ sched' = [sched EXCEPT ![s] = FreshSched]
    /\ win' = [win EXCEPT ![s] = FreshWin]

\* schedule_windows after a window has been consumed (scheduler.py 166-173),
\* and then the wait for the next chunk.
ResumeScheduler(s) ==
    LET ws == calculate_next_window_start(sched[s].current_time, window_seconds, hop_seconds)
        wait == ws - sched[s].current_time
    IN /\ sched' = [sched EXCEPT ![s] = [window_start |-> ws, current_time |-> 0,
                                             wake_at |-> IF wait > 0 THEN now + wait ELSE 0]]
       /\ pc' = [pc EXCEPT ![s] = IF wait > 0 THEN "sleep" ELSE "read"]

\* _run up to the first suspension after the decoder is spawned: ffmpeg.start(),
\* then schedule_windows' alignment (scheduler.py 139-148).
FFmpegStartOk(s) ==
    /\ pc[s] = "ffmpeg_start"
    /\ ~ffmpeg[s].is_running
    /\ ffmpeg' = [ffmpeg EXCEPT ![s] = [@ EXCEPT !.is_running = TRUE, !.process = "alive"]]
    /\ LET ws == calculate_next_window_start(now, window_seconds, hop_seconds)
           wait == ws - now
       IN /\ sched' = [sched EXCEPT ![s] = [window_start |-> ws, current_time |-> 0,
                                             wake_at |-> IF wait > 0 THEN now + wait ELSE 0]]
          /\ pc' = [pc EXCEPT ![s] = IF wait > 0 THEN "sleep" ELSE "read"]
    /\ UNCHANGED <<sw, mgr, gateVars, aggVars, dbVars, fed, now, running, task_exc, win, window_count>>

\* create_subprocess_exec raises: start() re-raises and the task ends.
FFmpegStartFails(s) ==
    /\ pc[s] = "ffmpeg_start"
    /\ ~ffmpeg[s].is_running
    /\ RaiseInRun(s, "StartError")
    /\ UNCHANGED <<sw, mgr, gateVars, aggVars, dbVars, fed, now, running, window_count>>

\* clock.sleep returns
WakeUp(s) ==
    /\ pc[s] = "sleep"
    /\ now >= sched[s].wake_at
    /\ pc' = [pc EXCEPT ![s] = "read"]
    /\ sched' = [sched EXCEPT ![s] = [@ EXCEPT !.wake_at = 0]]
    /\ UNCHANGED <<sw, mgr, gateVars, aggVars, dbVars, fed, now, running, task_exc, ffmpeg, win, window_count>>

\* stdout.read returns a chunk (ffmpeg.py 191-196, scheduler.py 150-164); when
\* the window is due it is yielded and _process_window dispatches it.
ReadChunk(s) ==
    /\ pc[s] = "read"
    /\ ffmpeg[s].is_running /\ ffmpeg[s].process = "alive"
    /\ IF now >= sched[s].window_start + window_seconds * TicksPerSecond
       THEN /\ window_count["s1"] + window_count["s2"] < MaxWindows
            /\ running[s]
            /\ sched' = [sched EXCEPT ![s] = [@ EXCEPT !.current_time = now]]
            /\ window_count' = [window_count EXCEPT ![s] = @ + 1]
            /\ pc' = [pc EXCEPT ![s] = "recognize"]
            /\ win' = [win EXCEPT ![s] = [@ EXCEPT !.window_timestamp = now]]
       ELSE UNCHANGED <<pc, win, window_count, sched>>
    /\ UNCHANGED <<sw, mgr, gateVars, aggVars, dbVars, fed, now, running, task_exc, ffmpeg>>

\* stdout.read returns b"": the reader breaks and clears is_running (ffmpeg.py
\* 192-206), schedule_windows and the loop of _run end, the finally of _run
\* calls stop(), and the task returns.
ReadEOF(s) ==
    /\ pc[s] = "read"
    /\ ffmpeg[s].is_running /\ ffmpeg[s].process = "alive"
    /\ ffmpeg' = [ffmpeg EXCEPT ![s] =
                     ffmpeg_stop([@ EXCEPT !.is_running = FALSE, !.process = "exited"])]
    /\ pc' = [pc EXCEPT ![s] = "done"]
    /\ UNCHANGED <<sw, mgr, gateVars, aggVars, dbVars, fed, now, running, task_exc, sched, win, window_count>>

\* The aggregator loop and what follows it without suspension (worker.py 287-297).
AfterDiagnostics(s, results) ==
    LET out == FeedAll(pending_hits, s, results, <<>>)
    IN /\ pending_hits' = out.pending
       /\ fed' = [fed EXCEPT ![s] = @ \o results]
       /\ win' = [win EXCEPT ![s] = [@ EXCEPT !.results = <<>>, !.i = 0,
                                               !.window_timestamp = 0,
                                               !.confirmed_plays = out.confirmed_plays]]
       /\ IF out.confirmed_plays = <<>>
          THEN ResumeScheduler(s)
          ELSE /\ pc' = [pc EXCEPT ![s] = "upsert"]
               /\ UNCHANGED sched

\* recognize_parallel returns its list
RecognizeReturns_detached(s) ==
    /\ pc[s] = "recognize"
    /\ \E results \in ResultLists(1, win[s].window_timestamp) :
          /\ win' = [win EXCEPT ![s] = [@ EXCEPT !.results = results, !.i = 1]]
          /\ ResumeScheduler(s)
          /\ UNCHANGED <<pending_hits, fed>>
    /\ UNCHANGED <<sw, mgr, gateVars, last, ncalls, dbVars, now, running, task_exc, ffmpeg, window_count>>
RecognizeReturns(s) ==
    /\ pc[s] = "recognize"
    /\ \E results \in ResultLists(1, win[s].window_timestamp) :
          IF results = <<>>
          THEN /\ AfterDiagnostics(s, results)
          ELSE /\ win' = [win EXCEPT ![s] = [@ EXCEPT !.results = results, !.i = 1]]
               /\ pc' = [pc EXCEPT ![s] = "diag"]
               /\ UNCHANGED <<pending_hits, fed, sched>>
    /\ UNCHANGED <<sw, mgr, gateVars, last, ncalls, dbVars, now, running, task_exc, ffmpeg, window_count>>

\* insert_recognition_by_name for results[i] (worker.py 272-285)
WriteDiagnostics(s) ==
    /\ pc[s] = "diag"
    /\ LET ins == insert_recognition_by_name(recognitions, streams_tbl, s,
                                             win[s].results[win[s].i])
       IN /\ streams_tbl' = ins.streams
          /\ recognitions' = ins.recognitions
    /\ IF win[s].i < Len(win[s].results)
       THEN /\ win' = [win EXCEPT ![s] = [@ EXCEPT !.i = @ + 1]]
            /\ UNCHANGED <<pc, sched, pending_hits, fed>>
       ELSE AfterDiagnostics(s, win[s].results)
    /\ UNCHANGED <<sw, mgr, gateVars, last, ncalls, tracks, plays, now, running, task_exc, ffmpeg, window_count>>

\* upsert_track for the first confirmed play still to be stored (worker.py
\* 299-308), up to the await of its SELECT: existing is kept in track_id.
UpsertTrack(s) ==
    /\ pc[s] = "upsert"
    /\ LET r == Head(win[s].confirmed_plays)
       IN win' = [win EXCEPT ![s] = [@ EXCEPT !.track_id =
                     upsert_select(tracks, r.provider, r.provider_track_id)]]
    /\ pc' = [pc EXCEPT ![s] = "upsert_write"]
    /\ UNCHANGED <<sw, mgr, gateVars, aggVars, fed, dbVars, now, running, task_exc,
                   ffmpeg, sched, window_count>>

\* upsert_track from the SELECT's answer on: the UPDATE of the row found, or
\* the INSERT, whose UNIQUE conflict raises out of _process_window and _run.
UpsertWrite(s) ==
    /\ pc[s] = "upsert_write"
    /\ LET r == Head(win[s].confirmed_plays)
           existing == win[s].track_id
           ins == upsert_insert(tracks, r.provider, r.provider_track_id, TrackAttrs(r))
       IN IF existing # 0
          THEN /\ tracks' = upsert_update(tracks, existing, TrackAttrs(r))
               /\ pc' = [pc EXCEPT ![s] = "stream_id"]
               /\ UNCHANGED <<win, sched, task_exc, ffmpeg>>
          ELSE IF ins.ok
          THEN /\ tracks' = ins.tracks
               /\ win' = [win EXCEPT ![s] = [@ EXCEPT !.track_id = ins.track_id]]
               /\ pc' = [pc EXCEPT ![s] = "stream_id"]
               /\ UNCHANGED <<sched, task_exc, ffmpeg>>
          ELSE /\ RaiseInRun(s, "IntegrityError(tracks)")
               /\ UNCHANGED tracks
    /\ UNCHANGED <<sw, mgr, gateVars, aggVars, fed, streams_tbl, plays, recognitions, now,
                   running, window_count>>

\* _get_stream_id (worker.py 311-313)
GetStreamId(s) ==
    /\ pc[s] = "stream_id"
    /\ LET sid == get_stream_id(streams_tbl, s)
       IN /\ streams_tbl' = sid.streams
          /\ win' = [win EXCEPT ![s] = [@ EXCEPT !.stream_id = sid.stream_id]]
    /\ pc' = [pc EXCEPT ![s] = "insert_play"]
    /\ UNCHANGED <<sw, mgr, gateVars, aggVars, fed, tracks, plays, recognitions, now, running, task_exc,
                   ffmpeg, sched, window_count>>

\* insert_play (worker.py 314-330); a UNIQUE conflict raises out of
\* _process_window and _run.
InsertPlay(s) ==
    /\ pc[s] = "insert_play"
    /\ LET r == Head(win[s].confirmed_plays)
           ins == insert_play(plays, PlayRow(win[s].track_id, win[s].stream_id,
                                             r.recognized_at_utc,
                                             dedup_bucket_of(r.recognized_at_utc),
                                             r.confidence))
       IN /\ plays' = ins.plays
          /\ IF ins.ok
             THEN /\ win' = [win EXCEPT ![s] = [@ EXCEPT !.confirmed_plays = Tail(@),
                                                         !.track_id = 0, !.stream_id = 0]]
                  /\ IF Tail(win[s].confirmed_plays) = <<>>
                     THEN ResumeScheduler(s)
                     ELSE /\ pc' = [pc EXCEPT ![s] = "upsert"]
                          /\ UNCHANGED sched
                  /\ UNCHANGED <<task_exc, ffmpeg>>
             ELSE RaiseInRun(s, "IntegrityError")
    /\ UNCHANGED <<sw, mgr, gateVars, aggVars, fed, tracks, streams_tbl, recognitions, now, running, window_count>>

\* A persistence call of _process_window raises (store locked, disk error ...).
PersistenceFails_rolls_back(s) ==
    /\ pc[s] \in {"diag", "upsert", "upsert_write", "stream_id", "insert_play"}
    /\ RaiseInRun(s, "OperationalError")
    /\ pending_hits' =
          IF win[s].confirmed_plays = <<>> THEN pending_hits
          ELSE LET r == Head(win[s].confirmed_plays)
               IN Put(pending_hits, s,
                      Put(StreamHits(pending_hits, s), track_key(r), TwoHitState(r)))
    /\ UNCHANGED <<sw, mgr, gateVars, last, ncalls, dbVars, fed, now, running, window_count>>
PersistenceFails(s) ==
    /\ pc[s] \in {"diag", "upsert", "upsert_write", "stream_id", "insert_play"}
    /\ RaiseInRun(s, "OperationalError")
    /\ UNCHANGED <<sw, mgr, gateVars, aggVars, dbVars, fed, now, running, window_count>>

\* StreamWorker.stop: the task is cancelled at the await it is suspended in and
\* awaited, then the runner is stopped once more. CancelledError is not an
\* Exception: in read_audio_data only the finally runs (is_running = False),
\* in _run only the finally (ffmpeg_runner.stop()).
\*   task not yet past ffmpeg.start(): no child has been assigned;
\*   in stdout.read: the reader's finally clears is_running first;
\*   in clock.sleep or in _process_window: the reader is not running;
\*   task already returned (EOF): nothing is cancelled;
\*   task already failed: awaiting it re-raises and stop() does not return.
Fleet ==
    [mgr |-> mgr, pc |-> pc, running |-> running, task_exc |-> task_exc,
     ffmpeg |-> ffmpeg, sched |-> sched, win |-> win, window_count |-> window_count,
     pending_hits |-> pending_hits, fed |-> fed]

worker_stop(f, s) ==
    IF ~f.running[s] THEN f
    ELSE IF f.pc[s] = "failed" THEN [f EXCEPT !.running[s] = FALSE]
    ELSE LET after_cancel ==
                 IF f.pc[s] = "read"
                 THEN [f.ffmpeg[s] EXCEPT !.is_running = FALSE]
                 ELSE f.ffmpeg[s]
         IN [f EXCEPT !.running[s] = FALSE,
                      !.pc[s] = "stopped",
                      !.sched[s] = FreshSched,
                      !.win[s] = FreshWin,
                      !.ffmpeg[s] = ffmpeg_stop(ffmpeg_stop(after_cancel))]

Stop(s) ==
    /\ running[s]
    /\ LET f == worker_stop(Fleet, s)
       IN /\ running' = f.running
          /\ pc' = f.pc
          /\ sched' = f.sched
          /\ win' = f.win
          /\ ffmpeg' = f.ffmpeg
    /\ UNCHANGED <<sw, mgr, gateVars, aggVars, dbVars, fed, now, task_exc, window_count>>

\* _log_periodic_stats: the worker field of the status line of stream s
worker_status(s) == IF running[s] THEN "running" ELSE "stopped"

\* Time passes, up to the horizon.
TickUpTo(horizon) ==
    /\ now < horizon
    /\ now' = now + 1
    /\ UNCHANGED <<sw, mgr, gateVars, aggVars, dbVars, fed, pc, running, task_exc, ffmpeg, sched, win, window_count>>

Tick == TickUpTo(MaxTime)

Init ==
    /\ pending_hits = <<>>
    /\ last = NoCall
    /\ ncalls = 0
    /\ fed = [s \in Streams |-> <<>>]
    /\ InitWorkers
    /\ mgr = FreshManager([s \in Streams |-> TRUE])
    /\ InitDb
    /\ InitGates(MaxGlobal, MaxPerProvider)
    /\ sw = FreshScheduler(window_seconds, hop_seconds)

Next ==
    \/ Tick
    \/ \E s \in Streams :
          \/ StartWorker(s)
          \/ FFmpegStartOk(s)
          \/ FFmpegStartFails(s)
          \/ WakeUp(s)
          \/ ReadChunk(s)
          \/ ReadEOF(s)
          \/ RecognizeReturns(s)
          \/ WriteDiagnostics(s)
          \/ UpsertTrack(s)
          \/ UpsertWrite(s)
          \/ GetStreamId(s)
          \/ InsertPlay(s)
          \/ PersistenceFails(s)
          \/ Stop(s)

Spec == Init /\ [][Next]_vars

\* ------------------------------------------- one worker over a long time
NextOne ==
    \/ TickUpTo(LongTime)
    \/ StartWorker("s1")
    \/ FFmpegStartOk("s1")
    \/ FFmpegStartFails("s1")
    \/ WakeUp("s1")
    \/ ReadChunk("s1")
    \/ ReadEOF("s1")
    \/ RecognizeReturns("s1")
    \/ WriteDiagnostics("s1")
    \/ UpsertTrack("s1")
    \/ UpsertWrite("s1")
    \/ GetStreamId("s1")
    \/ InsertPlay("s1")
    \/ PersistenceFails("s1")
    \/ Stop("s1")

SpecOne == Init /\ [][NextOne]_vars

\* ------------------------------------------------- the worker manager
\* Config.enabled_streams: the enabled descriptors, in the order of the list
enabled_streams(enabled) == SelectSeq(StreamOrder, LAMBDA s : enabled[s])

\* The task of the worker of stream s exists and has not ended.
Live(f, s) == f.pc[s] \notin {"idle", "failed", "done", "stopped"}

\* A new StreamWorker for stream s (_create_worker, StreamWorker.__init__) and
\* its start(): a new scheduler, aggregator and runner, _running set, the task
\* created.
worker_start(f, s) ==
    [f EXCEPT !.pc[s] = "ffmpeg_start",
              !.running[s] = TRUE,
              !.task_exc[s] = NoneVal,
              !.ffmpeg[s] = FreshRunner,
              !.sched[s] = FreshSched,
              !.win[s] = FreshWin,
              !.window_count[s] = 0,
              !.fed[s] = <<>>,
              !.pending_hits = IF s \in DOMAIN @ THEN Remove(@, s) ELSE @]

\* The body of start_all's loop for one enabled stream (worker.py 457-462):
\* the new worker replaces whatever workers held under the name.
create_and_start(f, s) ==
    LET id == f.mgr.created + 1
        lost == IF s \in DOMAIN f.mgr.workers /\ Live(f, s)
                THEN {<<s, f.mgr.workers[s]>>} ELSE {}
    IN worker_start([f EXCEPT !.mgr.workers = Put(@, s, id),
                              !.mgr.created = id,
                              !.mgr.orphans = @ \cup lost], s)

RECURSIVE start_workers(_, _, _)
start_workers(f, todo, k) ==
    IF k > Len(todo) THEN f
    ELSE start_workers(create_and_start(f, todo[k]), todo, k + 1)

\* WorkerManager.start_all
start_all(f) ==
    LET g == start_workers(f, enabled_streams(f.mgr.enabled), 1)
    IN [g EXCEPT !.mgr.running = TRUE,
                 !.mgr.stats_orphans = IF g.mgr.stats_task = "live" THEN @ + 1 ELSE @,
                 !.mgr.stats_task = "live"]

RECURSIVE stop_workers(_, _)
stop_workers(f, k) ==
    IF k > Len(StreamOrder) THEN f
    ELSE stop_workers(IF StreamOrder[k] \in DOMAIN f.mgr.workers
                      THEN worker_stop(f, StreamOrder[k]) ELSE f, k + 1)

\* WorkerManager.stop_all: the stats task is cancelled, every worker in
\* workers is stopped (an exception of stop() is swallowed by gather), and
\* workers is cleared.
stop_all_keeps_workers(f) ==
    [stop_workers(f, 1) EXCEPT !.mgr.running = FALSE,
                               !.mgr.stats_task = IF @ = "live" THEN "cancelled" ELSE @]
stop_all(f) ==
    [stop_workers(f, 1) EXCEPT !.mgr.running = FALSE,
                               !.mgr.stats_task = IF @ = "live" THEN "cancelled" ELSE @,
                               !.mgr.workers = <<>>]

\* WorkerManager.restart_all
restart_all(f) == start_all(stop_all(f))

SetFleet(f, op) ==
    /\ mgr' = [f.mgr EXCEPT !.calls = @ + 1, !.op = op]
    /\ pc' = f.pc
    /\ running' = f.running
    /\ task_exc' = f.task_exc
    /\ ffmpeg' = f.ffmpeg
    /\ sched' = f.sched
    /\ win' = f.win
    /\ window_count' = f.window_count
    /\ pending_hits' = f.pending_hits
    /\ fed' = f.fed
    /\ UNCHANGED <<sw, gateVars, last, ncalls, dbVars, now>>

StartAll == mgr.calls < MaxManagerCalls /\ SetFleet(start_all(Fleet), "start_all")

StopAll == mgr.calls < MaxManagerCalls /\ SetFleet(stop_all(Fleet), "stop_all")

RestartAll == mgr.calls < MaxManagerCalls /\ SetFleet(restart_all(Fleet), "restart_all")

\* A manager over a configuration with enabled and disabled streams
InitMgr ==
    /\ pending_hits = <<>>
    /\ last = NoCall
    /\ ncalls = 0
    /\ fed = [s \in Streams |-> <<>>]
    /\ now = 0
    /\ pc = [s \in Streams |-> "idle"]
    /\ running = [s \in Streams |-> FALSE]
    /\ task_exc = [s \in Streams |-> NoneVal]
    /\ ffmpeg = [s \in Streams |-> FreshRunner]
    /\ sched = [s \in Streams |-> FreshSched]
    /\ win = [s \in Streams |-> FreshWin]
    /\ window_count = [s \in Streams |-> 0]
    /\ \E enabled \in [Streams -> BOOLEAN] : mgr = FreshManager(enabled)
    /\ InitDb
    /\ InitGates(MaxGlobal, MaxPerProvider)
    /\ sw = FreshScheduler(window_seconds, hop_seconds)

\* The manager's calls, and of its workers the steps up to the dispatch of a
\* window: the decoder starting or failing to start, the wait for the window
\* boundary, the audio arriving or ending.
NextMgr ==
    \/ Tick
    \/ StartAll
    \/ StopAll
    \/ RestartAll
    \/ \E s \in Streams :
          \/ FFmpegStartOk(s)
          \/ FFmpegStartFails(s)
          \/ WakeUp(s)
          \/ ReadChunk(s)
          \/ ReadEOF(s)

SpecMgr == InitMgr /\ [][NextMgr]_vars

\* ------------------------------- two workers storing confirmed plays
\* What a confirmed result can carry for its track: the required fields only,
\* all fields, or an empty raw_response
TrackData ==
    {[title |-> "Song", artist |-> "Artist", album |-> NoneVal, isrc |-> NoneVal,
      artwork_url |-> NoneVal, raw_response |-> NoneVal],
     [title |-> "Song (Live)", artist |-> "Artist", album |-> "Album", isrc |-> "ISRC1",
      artwork_url |-> "http://art", raw_response |-> "{\"track\": 1}"],
     [title |-> "Song", artist |-> "Artist", album |-> NoneVal, isrc |-> NoneVal,
      artwork_url |-> NoneVal, raw_response |-> "{}"]}

ConfirmedResults ==
    {d @@ RecognitionResult(p, "T1", 0, NoneVal) : p \in Providers, d \in TrackData}

\* Both workers are in _process_window with one play each that their
\* aggregators have just confirmed (worker.py 287-297), about to store it;
\* the store is empty or holds what an earlier run left.
InitUpsert ==
    /\ \E confirmed \in [Streams -> ConfirmedResults] :
          /\ win = [s \in Streams |->
                       [FreshWin EXCEPT !.confirmed_plays = <<confirmed[s]>>]]
          /\ fed = [s \in Streams |-> <<confirmed[s], confirmed[s]>>]
    /\ pending_hits = [s \in Streams |-> <<>>]
    /\ last = NoCall
    /\ ncalls = 0
    /\ now = 0
    /\ pc = [s \in Streams |-> "upsert"]
    /\ running = [s \in Streams |-> TRUE]
    /\ task_exc = [s \in Streams |-> NoneVal]
    /\ ffmpeg = [s \in Streams |-> [FreshRunner EXCEPT !.is_running = TRUE,
                                                       !.process = "alive"]]
    /\ sched = [s \in Streams |-> FreshSched]
    /\ window_count = [s \in Streams |-> 2]
    /\ mgr = FreshManager([s \in Streams |-> TRUE])
    /\ InitDb \/ InitDbEmpty
    /\ InitGates(MaxGlobal, MaxPerProvider)
    /\ sw = FreshScheduler(window_seconds, hop_seconds)

NextUpsert == \E s \in Streams : UpsertTrack(s) \/ UpsertWrite(s)

SpecUpsert == InitUpsert /\ [][NextUpsert]_vars

\* ------------------------------------------------- the recognizers
\* A JSON value that is not an object (null, a string, a list), and an absent one
NotADict == [not_a_dict |-> TRUE]
Null == [null |-> TRUE]

\* dict.get(key, default)
Get(d, key, default) == IF key \in DOMAIN d THEN d[key] ELSE default

\* What a parser did: it returned a result, or an exception left it
ParseRaises == [raised |-> TRUE]

FullResult(p, id, title, artist, t, err) ==
    [title |-> title, artist |-> artist] @@ RecognitionResult(p, id, t, err)

\* The result both recognizers build in their error branches
ErrorResult(p, t, message) == FullResult(p, "", "", "", t, message)

\* ShazamioRecognizer._parse_shazam_response
parse_shazam_response(response, t) ==
    IF response = NotADict THEN ParseRaises
    ELSE IF "error" \in DOMAIN response
    THEN IF response.error = NotADict THEN ParseRaises
         ELSE ErrorResult("shazam", t, Get(response.error, "message", "Unknown Shazam error"))
    ELSE LET matches == Get(response, "matches", <<>>)
             track_data == Get(response, "track", Null)
         IN IF Len(matches) = 0 \/ track_data = Null
            THEN FullResult("shazam", "", "", "", t, NoneVal)
            ELSE IF track_data = NotADict THEN ParseRaises
            ELSE FullResult("shazam", Get(track_data, "key", ""),
                            Get(track_data, "title", ""),
                            Get(track_data, "subtitle", ""), t, NoneVal)

\* ShazamioRecognizer.recognize for a call started at t, given what the audio
\* and the service did
shazamio_recognize(did, t) ==
    IF did.wav = "invalid"
    THEN ErrorResult("shazam", t, "Invalid WAV format - cannot process audio")
    ELSE IF did.api = "timeout"
    THEN ErrorResult("shazam", t, "Recognition timed out")
    ELSE IF did.api = "raises"
    THEN ErrorResult("shazam", t, "Recognition failed")
    ELSE LET parsed == parse_shazam_response(did.response, t)
         IN IF parsed = ParseRaises
            THEN ErrorResult("shazam", t, "Recognition failed")
            ELSE parsed

\* AcoustIDRecognizer._query_acoustid: the body, with an error entry added
\* when the HTTP status is not 200
query_acoustid(did) ==
    IF did.http = 200 THEN did.response
    ELSE IF did.response = NotADict THEN ParseRaises
    ELSE [error |-> [message |-> "AcoustID API error: HTTP"]] @@ did.response

\* ", ".join of the artists' names, for recordings of at most one artist
artist_names(artists) ==
    IF Len(artists) = 0 THEN "" ELSE Get(artists[1], "name", "")

\* AcoustIDRecognizer._parse_acoustid_response; the best result is the first
parse_acoustid_response(response, t) ==
    IF response = NotADict THEN ParseRaises
    ELSE IF "error" \in DOMAIN response
    THEN IF response.error = NotADict THEN ParseRaises
         ELSE ErrorResult("acoustid", t,
                          Get(response.error, "message", "Unknown AcoustID error"))
    ELSE IF Get(response, "status", NoneVal) # "ok"
    THEN ErrorResult("acoustid", t, "AcoustID API returned status")
    ELSE LET results == Get(response, "results", <<>>)
         IN IF Len(results) = 0
            THEN FullResult("acoustid", "", "", "", t, NoneVal)
            ELSE IF results[1] = NotADict THEN ParseRaises
            ELSE LET track_id == Get(results[1], "id", "")
                     recordings == Get(results[1], "recordings", <<>>)
                 IN IF Len(recordings) = 0
                    THEN FullResult("acoustid", track_id, "", "", t, NoneVal)
                    ELSE FullResult("acoustid", track_id,
                                    Get(recordings[1], "title", ""),
                                    artist_names(Get(recordings[1], "artists", <<>>)),
                                    t, NoneVal)

\* AcoustIDRecognizer.recognize
acoustid_recognize(did, t) ==
    IF did.fingerprint = "none"
    THEN ErrorResult("acoustid", t, "Failed to generate audio fingerprint")
    ELSE IF did.api = "timeout"
    THEN ErrorResult("acoustid", t, "Recognition timed out")
    ELSE IF did.api = "raises"
    THEN ErrorResult("acoustid", t, "Recognition failed")
    ELSE LET response == query_acoustid(did)
             parsed == IF response = ParseRaises THEN ParseRaises
                       ELSE parse_acoustid_response(response, t)
         IN IF parsed = ParseRaises
            THEN ErrorResult("acoustid", t, "Recognition failed")
            ELSE parsed

\* What Shazam can answer, each with its kind: a match, no match, an error
\* response, and malformed responses (no object, an object without the
\* expected keys, a track that is no object or has no key).
ShazamResponses ==
    LET ShazamTrack == [key |-> "T1", title |-> "Song", subtitle |-> "Artist"]
        ShazamMatch == [id |-> "m1"]
    IN
    {<<"match", [matches |-> <<ShazamMatch>>, track |-> ShazamTrack]>>,
     <<"no_match", [matches |-> <<>>]>>,
     <<"provider_error", [error |-> [message |-> "boom"]]>>,
     <<"provider_error", [error |-> [code |-> "500"]]>>,
     <<"malformed", NotADict>>,
     <<"malformed", [error |-> NotADict]>>,
     <<"malformed", [tagid |-> "x"]>>,
     <<"malformed", [matches |-> <<ShazamMatch>>]>>,
     <<"malformed", [matches |-> <<ShazamMatch>>, track |-> NotADict]>>,
     <<"malformed", [matches |-> <<ShazamMatch>>, track |-> [title |-> "Song"]]>>}

ShazamCalls ==
    {[wav |-> "invalid", api |-> "none", kind |-> "invalid_audio", response |-> Null]}
    \cup {[wav |-> w, api |-> a, kind |-> IF a = "timeout" THEN "timeout" ELSE "transport",
           response |-> Null] : w \in {"valid", "raw_pcm"}, a \in {"timeout", "raises"}}
    \cup {[wav |-> w, api |-> "response", kind |-> x[1], response |-> x[2]] :
              w \in {"valid", "raw_pcm"}, x \in ShazamResponses}

\* What AcoustID can answer
AcoustidResponses ==
    LET AcoustidRecording == [title |-> "Song", artists |-> <<[name |-> "Artist"]>>]
    IN
    {<<"match", 200, [status |-> "ok",
                      results |-> <<[id |-> "T1", recordings |-> <<AcoustidRecording>>]>>]>>,
     <<"no_match", 200, [status |-> "ok", results |-> <<>>]>>,
     <<"provider_error", 200, [status |-> "error", error |-> [message |-> "invalid API key"]]>>,
     <<"provider_error", 400, [status |-> "error", error |-> [message |-> "invalid API key"]]>>,
     <<"provider_error", 503, [status |-> "error"]>>,
     <<"malformed", 200, NotADict>>,
     <<"malformed", 500, NotADict>>,
     <<"malformed", 200, [unexpected |-> "x"]>>,
     <<"malformed", 200, [status |-> "ok"]>>,
     <<"malformed", 200, [status |-> "ok", results |-> <<NotADict>>]>>,
     <<"malformed", 200, [status |-> "ok", results |-> <<[score |-> "1"]>>]>>}

AcoustidCalls ==
    {[fingerprint |-> "none", api |-> "none", kind |-> "invalid_audio", http |-> 0,
      response |-> Null]}
    \cup {[fingerprint |-> "ok", api |-> a,
           kind |-> IF a = "timeout" THEN "timeout" ELSE "transport", http |-> 0,
           response |-> Null] : a \in {"timeout", "raises"}}
    \cup {[fingerprint |-> "ok", api |-> "response", kind |-> x[1], http |-> x[2],
           response |-> x[3]] : x \in AcoustidResponses}

\* recognizer.recognize is called at the present time
Recognize(p, did) ==
    /\ ncalls < MaxCalls
    /\ last' = [recognizer |-> p, did |-> did,
                ret |-> IF p = "shazam" THEN shazamio_recognize(did, now)
                        ELSE acoustid_recognize(did, now)]
    /\ ncalls' = ncalls + 1
    /\ UNCHANGED <<sw, mgr, pending_hits, workerVars, dbVars, fed, gateVars>>

NextRecognize ==
    \/ Tick
    \/ \E did \in ShazamCalls : Recognize("shazam", did)
    \/ \E did \in AcoustidCalls : Recognize("acoustid", did)

SpecRecognize == InitAgg /\ [][NextRecognize]_vars

\* ------------------------------------------- the scheduler on its own
\* schedule_windows is called (scheduler.py 139-148)
ScheduleWindows ==
    /\ sw.pc = "new"
    /\ LET next_window_start ==
               calculate_next_window_start(now, sw.window_seconds, sw.hop_seconds)
           wait == next_window_start - now
       IN sw' = [sw EXCEPT !.started_at = now, !.current_time = now,
                           !.window_start = next_window_start,
                           !.wake_at = IF wait > 0 THEN now + wait ELSE 0,
                           !.pc = IF wait > 0 THEN "sleep" ELSE "read"]
    /\ UNCHANGED <<mgr, gateVars, aggVars, dbVars, fed, workerVars>>

\* clock.sleep returns
SchedulerWakes ==
    /\ sw.pc = "sleep"
    /\ now >= sw.wake_at
    /\ sw' = [sw EXCEPT !.pc = "read", !.wake_at = 0]
    /\ UNCHANGED <<mgr, gateVars, aggVars, dbVars, fed, workerVars>>

\* The audio stream delivers a chunk (scheduler.py 150-164): it is buffered,
\* and if the window's end has passed the window is yielded.
ChunkArrives ==
    /\ sw.pc = "read"
    /\ LET buffered == IF sw.buffer < MaxChunks THEN sw.buffer + 1 ELSE sw.buffer
           window_end == sw.window_start + sw.window_seconds * TicksPerSecond
       IN IF now >= window_end
          THEN /\ Len(sw.emitted) < MaxEmitted
               /\ sw' = [sw EXCEPT !.buffer = buffered, !.current_time = now,
                                   !.pc = "yielded",
                                   !.emitted = Append(@, [start_utc |-> sw.window_start,
                                                          end_utc |-> window_end,
                                                          chunks |-> buffered])]
          ELSE sw' = [sw EXCEPT !.buffer = buffered, !.current_time = now]
    /\ UNCHANGED <<mgr, gateVars, aggVars, dbVars, fed, workerVars>>

\* The consumer asks for the next window (scheduler.py 166-173)
ConsumerResumes ==
    /\ sw.pc = "yielded"
    /\ LET window_start ==
               calculate_next_window_start(sw.current_time, sw.window_seconds, sw.hop_seconds)
           wait == window_start - sw.current_time
       IN sw' = [sw EXCEPT !.window_start = window_start, !.buffer = 0,
                           !.wake_at = IF wait > 0 THEN now + wait ELSE 0,
                           !.pc = IF wait > 0 THEN "sleep" ELSE "read"]
    /\ UNCHANGED <<mgr, gateVars, aggVars, dbVars, fed, workerVars>>

\* The audio stream ends: so does schedule_windows.
AudioStreamEnds ==
    /\ sw.pc = "read"
    /\ sw' = [sw EXCEPT !.pc = "ended"]
    /\ UNCHANGED <<mgr, gateVars, aggVars, dbVars, fed, workerVars>>

SchedTick == TickUpTo(SchedMaxTime)

\* Any configuration the validator accepts (hop_seconds > window_seconds)
InitSched ==
    /\ pending_hits = <<>>
    /\ last = NoCall
    /\ ncalls = 0
    /\ fed = [s \in Streams |-> <<>>]
    /\ InitWorkers
    /\ mgr = FreshManager([s \in Streams |-> TRUE])
    /\ InitDbEmpty
    /\ InitGates(MaxGlobal, MaxPerProvider)
    /\ \E window \in 1..MaxWindowSeconds :
          \E hop \in (window + 1)..(MaxWindowSeconds + 2) :
              sw = FreshScheduler(window, hop)

NextSched ==
    \/ SchedTick
    \/ ScheduleWindows
    \/ SchedulerWakes
    \/ ChunkArrives
    \/ ConsumerResumes
    \/ AudioStreamEnds

SpecSched == InitSched /\ [][NextSched]_vars

\* The clock runs and a sleep that is over returns; nothing makes the audio
\* stream deliver.
SpecSchedSilent == SpecSched /\ WF_vars(SchedTick) /\ WF_vars(SchedulerWakes)

\* ------------------------------- a scheduler and the consumer of its windows
\* _process_window for the window just yielded, with one provider answering:
\* the recognizer is entered at the present time, which is the window's yield
\* or later (recognize_parallel, waiting at the gates), and stamps its result
\* with it; the result is fed to the aggregator (worker.py 259-294).
ProcessWindow(s) ==
    /\ sw.pc = "yielded"
    /\ Len(fed[s]) < Len(sw.emitted)
    /\ \E p \in Providers : \E r \in ResultsOf(p, now) :
          LET out == process_recognition(pending_hits, s, r)
          IN /\ pending_hits' = out.pending
             /\ last' = [stream |-> s, result |-> r, before |-> pending_hits,
                         ret |-> out.ret]
             /\ fed' = [fed EXCEPT ![s] = Append(@, r)]
    /\ UNCHANGED <<sw, mgr, ncalls, workerVars, dbVars, gateVars>>

NextConsumer ==
    \/ SchedTick
    \/ ScheduleWindows
    \/ SchedulerWakes
    \/ ChunkArrives
    \/ ProcessWindow("s1")
    \* _run takes the next window once _process_window has returned
    \/ Len(fed["s1"]) = Len(sw.emitted) /\ ConsumerResumes
    \/ AudioStreamEnds

SpecConsumer == InitAgg /\ [][NextConsumer]_vars

\* ------------------------------------------- the runner on its own (ffmpeg.py)
\* start() on a fresh runner
RunnerStart(s) ==
    /\ ffmpeg[s] = FreshRunner
    /\ ffmpeg' = [ffmpeg EXCEPT ![s] = ffmpeg_start(@)]
    /\ UNCHANGED <<sw, mgr, gateVars, aggVars, dbVars, fed, now, pc, running, task_exc, sched, win,
                   window_count>>

\* The child exits; the reader sees EOF and clears is_running (ffmpeg.py 192-206).
ChildExits(s) ==
    /\ ffmpeg[s].is_running /\ ffmpeg[s].process = "alive"
    /\ ffmpeg' = [ffmpeg EXCEPT ![s] = [@ EXCEPT !.is_running = FALSE, !.process = "exited"]]
    /\ UNCHANGED <<sw, mgr, gateVars, aggVars, dbVars, fed, now, pc, running, task_exc, sched, win,
                   window_count>>

\* read_audio_data yields a chunk of the running child (ffmpeg.py 191-198)
ChunkRead(s) ==
    /\ ffmpeg[s].is_running /\ ffmpeg[s].process = "alive"
    /\ ffmpeg' = [ffmpeg EXCEPT ![s] = [@ EXCEPT !.in_a_row = 0]]
    /\ UNCHANGED <<sw, mgr, gateVars, aggVars, dbVars, fed, now, pc, running, task_exc, sched, win,
                   window_count>>

\* restart() is called on a runner that was started
RunnerRestart(s) ==
    /\ ffmpeg[s].process # NoneVal
    /\ ffmpeg[s].raised = NoneVal
    /\ ffmpeg' = [ffmpeg EXCEPT ![s] = ffmpeg_restart(@)]
    /\ UNCHANGED <<sw, mgr, gateVars, aggVars, dbVars, fed, now, pc, running, task_exc, sched, win,
                   window_count>>

NextRunner ==
    \E s \in Streams : RunnerStart(s) \/ ChildExits(s) \/ ChunkRead(s) \/ RunnerRestart(s)

SpecRunner == InitAgg /\ [][NextRunner]_vars

\* ------------------------------------------- the capacity gates (worker.py)
\* asyncio.Semaphore.locked
sem_locked(sem) == sem.value = 0 \/ Len(sem.waiters) > 0

\* asyncio.Semaphore._wake_up_next: the first waiter whose future is not done
\* gets the permit.
sem_wake_up_next_nobody(sem) == sem
sem_wake_up_next(sem) ==
    LET sleeping == {i \in 1..Len(sem.waiters) : sem.waiters[i] \notin sem.woken}
    IN IF sleeping = {} THEN sem
       ELSE LET i == CHOOSE x \in sleeping : \A y \in sleeping : x <= y
            IN [sem EXCEPT !.value = @ - 1, !.woken = @ \cup {sem.waiters[i]}]

\* asyncio.Semaphore.release
sem_release_leaky(sem) ==
    [sem_wake_up_next([sem EXCEPT !.value = @ + 1]) EXCEPT !.value = sem.value + 1]
sem_release(sem) == sem_wake_up_next([sem EXCEPT !.value = @ + 1])

\* asyncio.Semaphore.acquire after its future was set: leave the queue, pass
\* a spare permit on.
sem_resume(sem, t) ==
    LET left == [sem EXCEPT !.waiters = SelectSeq(@, LAMBDA x : x # t),
                            !.woken = @ \ {t}]
    IN IF left.value > 0 THEN sem_wake_up_next(left) ELSE left

Gates == [gsem |-> gsem, psem |-> psem, task |-> task]

\* _do_recognize: the recognizer's result, or None if it raised
do_recognize_drops_errors(o) ==
    IF o = Raised THEN NoResult
    ELSE IF o.error_message # NoneVal THEN NoResult ELSE o
do_recognize(o) == IF o = Raised THEN NoResult ELSE o

\* What the task of _recognize_with_limits ended with: None if it skipped
task_result(t) == IF task[t] = "skipped" THEN NoResult ELSE do_recognize(outcome[t])

\* The loop over completed_tasks (worker.py 67-74): the results that are
\* RecognitionResults, in the order of the recognizers.
RECURSIVE collect_results(_, _)
collect_results(w, k) ==
    IF k > Len(ProviderOrder) THEN <<>>
    ELSE LET result == task_result(<<w, ProviderOrder[k]>>)
         IN (IF result # NoResult THEN <<result>> ELSE <<>>) \o collect_results(w, k + 1)

\* async with provider_sem (worker.py 105-108): take a permit and call the
\* recognizer, or queue on the provider's semaphore.
enter_provider(g, t) ==
    LET p == t[2]
    IN IF ~sem_locked(g.psem[p])
       THEN [g EXCEPT !.psem[p].value = @ - 1, !.task[t] = "inflight"]
       ELSE [g EXCEPT !.psem[p].waiters = Append(@, t), !.task[t] = "wait_provider"]

\* async with self.global_semaphore (worker.py 103)
enter_global(g, t) ==
    IF ~sem_locked(g.gsem)
    THEN enter_provider([g EXCEPT !.gsem.value = @ - 1], t)
    ELSE [g EXCEPT !.gsem.waiters = Append(@, t), !.task[t] = "wait_global"]

\* _recognize_with_limits from its start to its first suspension
recognize_with_limits_no_probe(g, t) == enter_global(g, t)
recognize_with_limits(g, t) ==
    IF sem_locked(g.psem[t[2]])
    THEN [g EXCEPT !.task[t] = "skipped"]
    ELSE enter_global(g, t)

\* recognize_parallel (worker.py 53-65): one task per recognizer, started in
\* dictionary order when the dispatcher suspends in gather.
RECURSIVE start_tasks(_, _, _)
start_tasks(g, w, k) ==
    IF k > Len(ProviderOrder) THEN g
    ELSE start_tasks(recognize_with_limits(g, <<w, ProviderOrder[k]>>), w, k + 1)

SetGates(g) ==
    /\ gsem' = g.gsem
    /\ psem' = g.psem
    /\ task' = g.task

Dispatch(w) ==
    /\ \A p \in Providers : task[<<w, p>>] = "none"
    /\ SetGates(start_tasks(Gates, w, 1))
    /\ UNCHANGED <<sw, mgr, limits, outcome, gathered, aggVars, workerVars, dbVars, fed>>

\* A task woken on the global semaphore resumes and enters the provider's.
GlobalResume(t) ==
    /\ task[t] = "wait_global"
    /\ t \in gsem.woken
    /\ SetGates(enter_provider([Gates EXCEPT !.gsem = sem_resume(gsem, t)], t))
    /\ UNCHANGED <<sw, mgr, limits, outcome, gathered, aggVars, workerVars, dbVars, fed>>

\* A task woken on its provider's semaphore resumes and calls the recognizer.
ProviderResume(t) ==
    /\ task[t] = "wait_provider"
    /\ t \in psem[t[2]].woken
    /\ SetGates([Gates EXCEPT !.psem[t[2]] = sem_resume(psem[t[2]], t),
                              !.task[t] = "inflight"])
    /\ UNCHANGED <<sw, mgr, limits, outcome, gathered, aggVars, workerVars, dbVars, fed>>

\* recognizer.recognize returns or raises (worker.py 132-142); both
\* semaphores are released on the way out.
RecognizeCompletes(t, o) ==
    /\ task[t] = "inflight"
    /\ outcome' = [outcome EXCEPT ![t] = o]
    /\ SetGates([Gates EXCEPT !.psem[t[2]] = sem_release(psem[t[2]]),
                              !.gsem = sem_release(gsem),
                              !.task[t] = "returned"])
    /\ UNCHANGED <<sw, mgr, limits, gathered, aggVars, workerVars, dbVars, fed>>

\* gather returns (worker.py 65-76): recognize_parallel returns its list and
\* the dispatch is over.
Gather(w) ==
    /\ \A p \in Providers : task[<<w, p>>] \in {"returned", "skipped"}
    /\ gathered' = [worker |-> w,
                    outcomes |-> [p \in Providers |-> outcome[<<w, p>>]],
                    results |-> collect_results(w, 1)]
    /\ task' = [t \in Tasks |-> IF t[1] = w THEN "none" ELSE task[t]]
    /\ outcome' = [t \in Tasks |-> IF t[1] = w THEN NotCalled ELSE outcome[t]]
    /\ UNCHANGED <<sw, mgr, limits, gsem, psem, aggVars, workerVars, dbVars, fed>>

InitGate ==
    /\ pending_hits = <<>>
    /\ last = NoCall
    /\ ncalls = 0
    /\ fed = [s \in Streams |-> <<>>]
    /\ InitWorkers
    /\ mgr = FreshManager([s \in Streams |-> TRUE])
    /\ InitDbEmpty
    /\ \E g \in 1..MaxGlobal, pp \in 1..MaxPerProvider : InitGates(g, pp)
    /\ sw = FreshScheduler(window_seconds, hop_seconds)

NextGate ==
    \/ \E w \in Dispatchers : Dispatch(w) \/ Gather(w)
    \/ \E t \in Tasks : GlobalResume(t) \/ ProviderResume(t) \/ RecognizeCompletes(t, Ended)

SpecGate == InitGate /\ [][NextGate]_vars

\* Two workers dispatching, with everything their recognizers can do. Their
\* tasks are skipped at a provider's gate or wait for the global one; with two
\* workers none finds a provider's gate taken after it passed the probe.
FanDispatchers == {"s1", "s2"}

NextFan ==
    \/ \E w \in FanDispatchers : Dispatch(w) \/ Gather(w)
    \/ \E t \in FanDispatchers \X Providers :
          \/ GlobalResume(t)
          \/ \E o \in RecognizerOutcomes(t[2]) : RecognizeCompletes(t, o)

SpecFan == InitGate /\ [][NextFan]_vars

\* ----------------------------------- a worker stopped during a dispatch
\* Semaphore.acquire of waiter t when CancelledError reaches it: a waiter
\* whose future was already set gives the permit back and passes it on.
sem_acquire_cancelled(sem, t) ==
    IF t \in sem.woken
    THEN sem_wake_up_next([sem EXCEPT !.waiters = SelectSeq(@, LAMBDA x : x # t),
                                      !.woken = @ \ {t}, !.value = @ + 1])
    ELSE sem

\* task.cancel() on the task of _recognize_with_limits: the future a waiter
\* sleeps on is cancelled, after which the semaphore no longer counts it.
cancel_task(g, t) ==
    LET p == t[2]
        forget(sem) == IF t \in sem.woken THEN sem
                       ELSE [sem EXCEPT !.waiters = SelectSeq(@, LAMBDA x : x # t)]
    IN IF g.task[t] = "inflight" THEN [g EXCEPT !.task[t] = "cancel_inflight"]
       ELSE IF g.task[t] = "wait_provider"
       THEN [g EXCEPT !.psem[p] = forget(@), !.task[t] = "cancel_wait_provider"]
       ELSE IF g.task[t] = "wait_global"
       THEN [g EXCEPT !.gsem = forget(@), !.task[t] = "cancel_wait_global"]
       ELSE g

\* gather's future is cancelled: every child is, in the order of the list
RECURSIVE cancel_tasks(_, _, _)
cancel_tasks(g, w, k) ==
    IF k > Len(ProviderOrder) THEN g
    ELSE cancel_tasks(cancel_task(g, <<w, ProviderOrder[k]>>), w, k + 1)

\* CancelledError travels up _recognize_with_limits (worker.py 102-112): each
\* async with that was entered releases its semaphore on the way out.
unwind_keeps_global(g, t) ==
    LET p == t[2]
    IN IF g.task[t] = "cancel_inflight"
       THEN [g EXCEPT !.psem[p] = sem_release(@), !.task[t] = "cancelled"]
       ELSE IF g.task[t] = "cancel_wait_provider"
       THEN [g EXCEPT !.psem[p] = sem_acquire_cancelled(@, t), !.task[t] = "cancelled"]
       ELSE [g EXCEPT !.gsem = sem_acquire_cancelled(@, t), !.task[t] = "cancelled"]
unwind(g, t) ==
    LET p == t[2]
    IN IF g.task[t] = "cancel_inflight"
       THEN [g EXCEPT !.psem[p] = sem_release(@), !.gsem = sem_release(@),
                      !.task[t] = "cancelled"]
       ELSE IF g.task[t] = "cancel_wait_provider"
       THEN [g EXCEPT !.psem[p] = sem_acquire_cancelled(@, t), !.gsem = sem_release(@),
                      !.task[t] = "cancelled"]
       ELSE [g EXCEPT !.gsem = sem_acquire_cancelled(@, t), !.task[t] = "cancelled"]

\* StreamWorker.stop while the worker's task waits in gather (worker.py
\* 208-213): the task is cancelled, and with it gather and its children.
CancelDispatch(w) ==
    /\ \E p \in Providers : task[<<w, p>>] \in {"inflight", "wait_provider", "wait_global"}
    /\ SetGates(cancel_tasks(Gates, w, 1))
    /\ UNCHANGED <<sw, mgr, limits, outcome, gathered, aggVars, workerVars, dbVars, fed>>

\* A cancelled child runs and ends with CancelledError.
Unwind(t) ==
    /\ task[t] \in {"cancel_inflight", "cancel_wait_provider", "cancel_wait_global"}
    /\ SetGates(unwind(Gates, t))
    /\ UNCHANGED <<sw, mgr, limits, outcome, gathered, aggVars, workerVars, dbVars, fed>>

\* All children are done: gather ends with CancelledError, recognize_parallel
\* returns nothing and the worker's task ends.
DispatchCancelled(w) ==
    /\ \A p \in Providers : task[<<w, p>>] \in {"returned", "skipped", "cancelled"}
    /\ \E p \in Providers : task[<<w, p>>] = "cancelled"
    /\ task' = [t \in Tasks |-> IF t[1] = w THEN "none" ELSE task[t]]
    /\ outcome' = [t \in Tasks |-> IF t[1] = w THEN NotCalled ELSE outcome[t]]
    /\ UNCHANGED <<sw, mgr, limits, gsem, psem, gathered, aggVars, workerVars, dbVars, fed>>

\* Three workers dispatch; the first of them is stopped at any point of a
\* dispatch, and the recognizers of the second may raise.
NextStop ==
    \/ \E w \in Dispatchers : Dispatch(w) \/ Gather(w)
    \/ CancelDispatch("s1")
    \/ DispatchCancelled("s1")
    \/ \E t \in Tasks :
          \/ GlobalResume(t)
          \/ ProviderResume(t)
          \/ Unwind(t)
          \/ RecognizeCompletes(t, Ended)
          \/ t[1] = "s2" /\ RecognizeCompletes(t, Raised)

SpecStop == InitGate /\ [][NextStop]_vars

\* The event loop runs every task that is ready, and every recognizer call
\* returns in the end, except those of the provider named slow, which may stay
\* in flight for ever.
GateFairness(slow) ==
    /\ \A t \in Tasks : WF_vars(GlobalResume(t)) /\ WF_vars(ProviderResume(t))
    /\ \A t \in Tasks : t[2] # slow => WF_vars(RecognizeCompletes(t, Ended))
    /\ \A w \in Dispatchers : WF_vars(Gather(w))

SpecGateSlow == SpecGate /\ GateFairness("shazam")

\* Every recognizer call returns in the end.
SpecGateFair == SpecGate /\ GateFairness(NoneVal)

\* ======================================================= properties
Tolerance == two_hit_hop_tolerance * hop_seconds * TicksPerSecond

\* A success in the sense of the data model: an id and no error_message.
Successful(r) == r.error_message = NoneVal /\ r.provider_track_id # ""
NoMatch(r) == r.error_message = NoneVal /\ r.provider_track_id = ""

\* The pending entries of stream s that belong to (provider, provider_track_id) of r
PendingFor(ph, s, r) ==
    {k \in DOMAIN StreamHits(ph, s) :
        /\ StreamHits(ph, s)[k].provider = r.provider
        /\ StreamHits(ph, s)[k].track_id = r.provider_track_id}

\* C1: a successful result whose key is pending and whose time is at most
\* tolerance_hops * hop_seconds after the pending first hit (equality
\* included) is returned by process_recognition, and afterwards no pending
\* entry exists for its key.
C1_ConfirmWithinTolerance ==
    (last # NoCall /\ Successful(last.result)) =>
        \A k \in PendingFor(last.before, last.stream, last.result) :
            (last.result.recognized_at_utc
                 - last.before[last.stream][k].first_hit_time <= Tolerance)
            => /\ last.ret = last.result
               /\ PendingFor(pending_hits, last.stream, last.result) = {}

\* C1 witness: a second hit exactly at the tolerance was confirmed.
C1_Witness ==
    /\ last # NoCall
    /\ Successful(last.result)
    /\ \E k \in PendingFor(last.before, last.stream, last.result) :
          last.result.recognized_at_utc
              - last.before[last.stream][k].first_hit_time = Tolerance
    /\ last.ret = last.result

\* C2: a no-match result (empty provider_track_id, no error_message) is
\* ignored by process_recognition: nothing is returned and no pending entry
\* is created or changed.
C2_NoMatchIgnored ==
    (last # NoCall /\ NoMatch(last.result)) =>
        /\ last.ret = NoResult
        /\ pending_hits = last.before

\* C6: a successful result whose key is pending and whose time is more than
\* tolerance_hops * hop_seconds after the pending first hit is not returned;
\* the pending entry of the key now has first_hit_time = r.recognized_at_utc
\* and the number of pending entries is unchanged.
C6_ReplaceOutsideTolerance ==
    (last # NoCall /\ Successful(last.result)) =>
        \A k \in PendingFor(last.before, last.stream, last.result) :
            (last.result.recognized_at_utc
                 - last.before[last.stream][k].first_hit_time > Tolerance)
            => /\ last.ret = NoResult
               /\ PendingFor(pending_hits, last.stream, last.result) # {}
               /\ \A k2 \in PendingFor(pending_hits, last.stream, last.result) :
                     pending_hits[last.stream][k2].first_hit_time
                         = last.result.recognized_at_utc
               /\ get_pending_hits_count(pending_hits, NoneVal)
                     = get_pending_hits_count(last.before, NoneVal)

\* C6 witness: a second hit one tick past the tolerance was not confirmed.
C6_Witness ==
    /\ last # NoCall
    /\ Successful(last.result)
    /\ \E k \in PendingFor(last.before, last.stream, last.result) :
          last.result.recognized_at_utc
              - last.before[last.stream][k].first_hit_time = Tolerance + 1
    /\ last.ret = NoResult

\* C3: a UNIQUE(track_id, stream_id, dedup_bucket) conflict of insert_play
\* never ends a worker's task.
C3_DuplicateSwallowed == \A s \in Streams : task_exc[s] # "IntegrityError"

\* Plays written by the workers of this run
NewPlays == BagToSet(plays) \ BagToSet(PriorPlays)

TwoHits(row, s) ==
    \E i \in 1..Len(fed[s]) : \E j \in (i + 1)..Len(fed[s]) :
        /\ fed[s][i].provider = fed[s][j].provider
        /\ fed[s][i].provider_track_id = fed[s][j].provider_track_id
        /\ fed[s][j].recognized_at_utc - fed[s][i].recognized_at_utc <= Tolerance
        /\ fed[s][j].recognized_at_utc = row.recognized_at_utc
        /\ row.track_id \in 1..Len(tracks)
        /\ tracks[row.track_id].provider = fed[s][j].provider
        /\ tracks[row.track_id].provider_track_id = fed[s][j].provider_track_id

\* C4: every play a worker inserted is backed by two results fed to the
\* aggregator of its stream, with the same (provider, provider_track_id), the
\* second at most tolerance_hops * hop_seconds after the first; the play
\* carries the second one's time and track.
C4_PlaysJustified ==
    \A row \in NewPlays :
        /\ row.stream_id \in 1..Len(streams_tbl)
        /\ TwoHits(row, streams_tbl[row.stream_id])

\* C4 witness: a worker has inserted a play.
C4_Witness == NewPlays # {}

\* The row insert_play is about to write for worker s
AttemptedPlay(s) ==
    LET r == Head(win[s].confirmed_plays)
    IN PlayRow(win[s].track_id, win[s].stream_id, r.recognized_at_utc,
               dedup_bucket_of(r.recognized_at_utc), r.confidence)

PlaysUnique ==
    \A row \in BagToSet(plays) :
        CountRows(plays, {x \in BagToSet(plays) : SameTriple(x, row)}) = 1

BucketsRight ==
    \A row \in BagToSet(plays) :
        row.dedup_bucket = row.recognized_at_utc \div (dedup_seconds * TicksPerSecond)

RejectedLeavesUnchanged ==
    \A s \in Streams :
        (/\ pc[s] = "insert_play"
         /\ pc'[s] # "insert_play"
         /\ \E old \in BagToSet(plays) : SameTriple(old, AttemptedPlay(s)))
        => plays' = plays

\* C7: the plays table never holds two rows with the same (track_id,
\* stream_id, dedup_bucket), the bucket of a row is floor(recognized_at_utc in
\* seconds / dedup_seconds), and an insert that meets an existing triple
\* leaves the table as it was.
C7_UniquePlays == [](PlaysUnique /\ BucketsRight) /\ [][RejectedLeavesUnchanged]_vars

\* C7 witness: an insert with an existing triple was rejected.
C7_Witness ==
    /\ \E s \in Streams : task_exc[s] = "IntegrityError"
    /\ plays # EmptyBag

\* C9: a worker whose decoder reached EOF while it was running, with restart
\* budget left, does not end its task: it restarts the decoder.
C9_EofRecovered ==
    \A s \in Streams :
        (/\ running[s]
         /\ ffmpeg[s].process = "exited"
         /\ ffmpeg[s].restart_count < max_restart_attempts)
        => pc[s] # "done"

\* C10: a persistence call that raises while a window is processed does not
\* end the worker's task.
C10_WriteErrorSurvived == \A s \in Streams : task_exc[s] # "OperationalError"

\* The decoder child of worker s has been spawned at some time.
ChildStarted(s) == ffmpeg[s].process # NoneVal \/ ffmpeg[s].signal # "none"

\* C11: once stop() has returned for a worker whose decoder child was started,
\* the child has been sent terminate (and kill after the grace period) and the
\* runner holds no process, wherever the task was cancelled and whether or not
\* the reader had seen EOF.
C11_StopTerminatesChild ==
    \A s \in Streams :
        (pc[s] = "stopped" /\ ChildStarted(s))
        => /\ ffmpeg[s].process = NoneVal
           /\ ffmpeg[s].signal = "terminate"

\* C12: a runner never sleeps more than the 9 backoff delays 1, 2, 4, 8, 16,
\* 32, 60, 60, 60 seconds, and when restart() fails with the budget error it
\* has slept exactly these: the 10th restart attempt is the one that fails.
C12_NineBackoffsThenFatal ==
    \A s \in Streams :
        /\ Len(ffmpeg[s].waits) <= 9
        /\ ffmpeg[s].raised # NoneVal
           => ffmpeg[s].waits = <<1, 2, 4, 8, 16, 32, 60, 60, 60>>

\* cleanup_expired_hits' max_age_seconds, in ticks
MaxAge == (two_hit_hop_tolerance + 1) * hop_seconds * TicksPerSecond

\* Worker s completes the processing of a window (one that confirmed nothing)
\* in this step.
WindowProcessed(s) ==
    /\ pc[s] \in {"recognize", "diag"}
    /\ pc'[s] \in {"sleep", "read"}

\* C13: when a worker has processed a window, none of its stream's pending
\* entries from before that window is older than (tolerance_hops + 1) *
\* hop_seconds.
C13_ExpiredPurged ==
    [][\A s \in Streams :
          WindowProcessed(s) =>
              \A k \in DOMAIN StreamHits(pending_hits', s) :
                  pending_hits'[s][k].first_hit_time < win[s].window_timestamp
                  => now' - pending_hits'[s][k].first_hit_time <= MaxAge]_vars

\* A task that passed the probe of its provider's gate and has not returned
Dispatched(t) == task[t] \in {"wait_global", "wait_provider", "inflight"}

\* C14: with the calls to shazam arbitrarily slow, every dispatched call to
\* acoustid still runs to completion.
C14_SlowProviderBlocksNoOther ==
    \A t \in Tasks : t[2] = "acoustid" => (Dispatched(t) ~> task[t] = "returned")

\* C15: successive windows yielded by schedule_windows start exactly
\* hop_seconds apart.
C15_WindowsOneHopApart ==
    \A i \in 1..(Len(sw.emitted) - 1) :
        sw.emitted[i + 1].start_utc - sw.emitted[i].start_utc
            = sw.hop_seconds * TicksPerSecond

\* The multiples of hop_seconds, in ticks, up to one hop past the horizon
HopBoundaries == {k * sw.hop_seconds * TicksPerSecond : k \in 0..(SchedMaxTime + 1)}

\* C16: the first window starts at the smallest multiple of hop_seconds that
\* is not before the time schedule_windows was called.
C16_FirstWindowAtNextBoundary ==
    sw.emitted # <<>> =>
        /\ sw.emitted[1].start_utc >= sw.started_at
        /\ sw.emitted[1].start_utc \in HopBoundaries
        /\ \A b \in HopBoundaries : b >= sw.started_at => sw.emitted[1].start_utc <= b

\* C17: a window during which no chunk has arrived is still yielded once its
\* end has passed.
C17_SilentWindowEmitted ==
    \A t \in 0..SchedMaxTime :
        (/\ sw.pc = "read"
         /\ sw.buffer = 0
         /\ sw.window_start = t
         /\ Len(sw.emitted) < MaxEmitted
         /\ now >= t + sw.window_seconds * TicksPerSecond)
        ~> (\E i \in 1..Len(sw.emitted) : sw.emitted[i].start_utc = t)

\* The results of worker s that have been through the diagnostics loop
Diagnosed(s) == fed[s] \o SubSeq(win[s].results, 1, win[s].i - 1)

\* The diagnostics rows of stream s for provider p stamped t
DiagnosticsRows(s, p, t) ==
    {row \in BagToSet(recognitions) :
        /\ row.stream_id \in StreamRows(streams_tbl, s)
        /\ row.provider = p
        /\ row.recognized_at_utc = t}

\* The times that rows of stream s or diagnosed results of worker s carry
StampsOf(s) ==
    {row.recognized_at_utc : row \in {r \in BagToSet(recognitions) :
                                         r.stream_id \in StreamRows(streams_tbl, s)}}
        \cup {Diagnosed(s)[i].recognized_at_utc : i \in DOMAIN Diagnosed(s)}

C19_ErrorRecorded ==
    \A s \in Streams :
        \A i \in DOMAIN fed[s] :
            fed[s][i].error_message # NoneVal =>
                \E row \in DiagnosticsRows(s, fed[s][i].provider,
                                           fed[s][i].recognized_at_utc) :
                    row.error_message = fed[s][i].error_message

\* The results the recognizers returned in the dispatch last gathered, in the
\* order of the recognizers
RECURSIVE ReturnedByRecognizers(_)
ReturnedByRecognizers(k) ==
    IF k > Len(ProviderOrder) THEN <<>>
    ELSE LET o == gathered.outcomes[ProviderOrder[k]]
         IN (IF o = NotCalled \/ o = Raised THEN <<>> ELSE <<o>>)
                \o ReturnedByRecognizers(k + 1)

\* C20: recognize_parallel returns exactly the results its recognizers
\* returned, no-match and error results included, at most one per provider; a
\* recognizer that raised or was not called contributes nothing and takes
\* nothing away from the others.
C20_AllResultsReturned ==
    gathered # NoGather =>
        /\ gathered.results = ReturnedByRecognizers(1)
        /\ \A i, j \in DOMAIN gathered.results :
              gathered.results[i].provider = gathered.results[j].provider => i = j

\* C20 witness: one recognizer raised and the other returned an error result,
\* which is the list returned.
C20_Witness ==
    /\ gathered # NoGather
    /\ gathered.outcomes["shazam"] = Raised
    /\ gathered.outcomes["acoustid"] # NotCalled
    /\ gathered.outcomes["acoustid"] # Raised
    /\ Len(gathered.results) = 1
    /\ gathered.results[1].error_message # NoneVal

\* C22: a result with a populated error_message leaves the aggregator
\* unchanged: process_recognition returns nothing and the pending entries of
\* every stream are exactly what they were before the call.
C22_ErrorResultIgnored ==
    (last # NoCall /\ last.result.error_message # NoneVal) =>
        /\ last.ret = NoResult
        /\ pending_hits = last.before

\* C22 witness: an error result carrying the track id of a pending entry of
\* its stream was fed, within the tolerance of that entry.
C22_Witness ==
    /\ last # NoCall
    /\ last.result.error_message # NoneVal
    /\ \E k \in PendingFor(last.before, last.stream, last.result) :
          last.result.recognized_at_utc
              - last.before[last.stream][k].first_hit_time <= Tolerance
    /\ pending_hits = last.before

\* C23: a pending entry is confirmed only by a later hit with the same
\* stream, provider and provider_track_id. A successful hit for which its
\* stream holds no entry of its provider and track id confirms nothing,
\* whatever other providers or other streams hold for that track id: it
\* creates its own pending entry and every other entry stays as it was.
C23_ConfirmedBySameKeyOnly ==
    last # NoCall =>
        /\ last.ret # NoResult =>
              /\ last.ret = last.result
              /\ PendingFor(last.before, last.stream, last.result) # {}
        /\ (Successful(last.result)
                /\ PendingFor(last.before, last.stream, last.result) = {}) =>
              /\ last.ret = NoResult
              /\ PendingFor(pending_hits, last.stream, last.result) # {}
              /\ \A s \in DOMAIN last.before : \A k \in DOMAIN last.before[s] :
                    /\ s \in DOMAIN pending_hits
                    /\ k \in DOMAIN pending_hits[s]
                    /\ pending_hits[s][k] = last.before[s][k]
              /\ get_pending_hits_count(pending_hits, NoneVal)
                    = get_pending_hits_count(last.before, NoneVal) + 1

\* C23 witness: the track id of the hit was pending for another provider on
\* the same stream and for the same provider on another stream, both within
\* the tolerance, and the hit was not confirmed.
C23_Witness ==
    /\ last # NoCall
    /\ Successful(last.result)
    /\ last.ret = NoResult
    /\ \E k \in DOMAIN StreamHits(last.before, last.stream) :
          /\ last.before[last.stream][k].track_id = last.result.provider_track_id
          /\ last.before[last.stream][k].provider # last.result.provider
          /\ last.result.recognized_at_utc
                 - last.before[last.stream][k].first_hit_time <= Tolerance
    /\ \E s \in Streams \ {last.stream} :
          \E k \in PendingFor(last.before, s, last.result) :
              last.result.recognized_at_utc
                  - last.before[s][k].first_hit_time <= Tolerance
    /\ get_pending_hits_count(pending_hits, NoneVal) = 3

\* C24: when the same successful result (same key, identical timestamp) is
\* fed n times to a stream whose aggregator holds no entry for its key, the
\* calls that return it are exactly the even-numbered ones, floor(n/2) of
\* them; an odd-numbered call returns nothing and leaves the key pending, an
\* even-numbered call consumes the pending entry.
C24_EvenFeedsConfirm ==
    (/\ last # NoCall
     /\ Successful(last.result)
     /\ PendingFor(last.start, last.stream, last.result) = {}) =>
        LET n == Len(last.returns)
        IN /\ n = ncalls
           /\ \A i \in 1..n :
                 last.returns[i] = IF i % 2 = 0 THEN last.result ELSE NoResult
           /\ Cardinality({i \in 1..n : last.returns[i] # NoResult}) = n \div 2
           /\ (PendingFor(pending_hits, last.stream, last.result) # {}) <=> (n % 2 = 1)

\* C24 witness: a successful result was fed MaxFeeds times to a stream next
\* to another pending entry; the second call confirmed it.
C24_Witness ==
    /\ last # NoCall
    /\ Successful(last.result)
    /\ PendingFor(last.start, last.stream, last.result) = {}
    /\ get_pending_hits_count(last.start, NoneVal) = 1
    /\ Len(last.returns) = MaxFeeds
    /\ last.returns[1] = NoResult
    /\ last.returns[2] = last.result

Failing(s) == pc[s] # "failed" /\ pc'[s] = "failed"

\* The step is the call op on the manager
Called(op) == mgr'.calls # mgr.calls /\ mgr'.op = op

EnabledNames == {s \in Streams : mgr.enabled[s]}

\* The worker of stream s has just been started: marked running, task created
Started(s) == running'[s] /\ pc'[s] = "ffmpeg_start" /\ task_exc'[s] = NoneVal

\* C26: the failure of one stream worker (its decoder failing to start, its
\* task ending with an exception) changes nothing in any other worker: their
\* position, running flag, decoder, schedule and windows are what they were,
\* and the manager is unchanged; only a worker's own task ever ends with an
\* exception. A start_all or restart_all made while a worker has failed
\* starts a worker for every enabled stream.
C26_FailureIsolated ==
    [][/\ \A s \in Streams : Failing(s) =>
             /\ mgr' = mgr
             /\ \A o \in Streams \ {s} :
                   /\ pc'[o] = pc[o]
                   /\ running'[o] = running[o]
                   /\ task_exc'[o] = task_exc[o]
                   /\ ffmpeg'[o] = ffmpeg[o]
                   /\ sched'[o] = sched[o]
                   /\ win'[o] = win[o]
                   /\ window_count'[o] = window_count[o]
       /\ \A o \in Streams : (task_exc[o] # NoneVal) <=> (pc[o] = "failed")
       /\ ((Called("start_all") \/ Called("restart_all"))
               /\ \E s \in Streams : pc[s] = "failed") =>
             \A o \in EnabledNames : o \in DOMAIN mgr'.workers /\ Started(o)
      ]_vars

\* C26 witness: the worker of s1 has failed at the start of its decoder; the
\* worker of s2 is running and has dispatched a window.
C26_Witness ==
    /\ pc["s1"] = "failed"
    /\ task_exc["s1"] = "StartError"
    /\ running["s2"]
    /\ pc["s2"] = "recognize"
    /\ window_count["s2"] >= 1
    /\ DOMAIN mgr.workers = {"s1", "s2"}

\* C27: after start_all, workers holds one started worker for each enabled
\* stream and none for a disabled one; after stop_all workers is empty and
\* every worker it held is stopped (not marked running, its task ended);
\* after restart_all workers again holds exactly the enabled streams' names,
\* each with a started worker instance that did not exist before.
C27_WorkersFollowConfig ==
    [][/\ (Called("start_all") \/ Called("restart_all")) =>
             /\ DOMAIN mgr'.workers = EnabledNames
             /\ \A s \in EnabledNames : Started(s)
             /\ \A s, o \in EnabledNames :
                   mgr'.workers[s] = mgr'.workers[o] => s = o
             /\ \A s \in Streams \ EnabledNames : ~running'[s] /\ pc'[s] = "idle"
       /\ Called("stop_all") =>
             /\ mgr'.workers = <<>>
             /\ \A s \in DOMAIN mgr.workers : ~running'[s] /\ ~Live(Fleet, s)'
       /\ Called("restart_all") =>
             \A s \in EnabledNames :
                 /\ mgr'.workers[s] > mgr.created
                 /\ \A o \in DOMAIN mgr.workers : mgr'.workers[s] # mgr.workers[o]
      ]_vars

\* C27 witness: with s2 disabled, start_all and then restart_all were called;
\* workers holds s1 only, with the second worker instance, started.
C27_Witness ==
    /\ mgr.op = "restart_all"
    /\ mgr.calls = 2
    /\ ~mgr.enabled["s2"]
    /\ DOMAIN mgr.workers = {"s1"}
    /\ mgr.workers["s1"] = 2
    /\ running["s1"]
    /\ pc["s1"] = "ffmpeg_start"

\* The step in which upsert_track of worker s returns
UpsertReturns(s) == pc[s] = "upsert_write" /\ pc'[s] = "stream_id"

\* The key worker s is upserting
SameKey(r, q) == r.provider = q.provider /\ r.provider_track_id = q.provider_track_id

\* C28: upsert_track is atomic per (provider, provider_track_id): no call
\* ends with the IntegrityError of the key's UNIQUE constraint; workers that
\* have upserted the same key hold the same track id, and the key has one row.
C28_ConcurrentUpsertsAgree ==
    /\ \A s \in Streams : task_exc[s] # "IntegrityError(tracks)"
    /\ \A s, o \in Streams :
          (/\ pc[s] = "stream_id" /\ pc[o] = "stream_id"
           /\ SameKey(Head(win[s].confirmed_plays), Head(win[o].confirmed_plays)))
          => win[s].track_id = win[o].track_id
    /\ \A s \in Streams :
          pc[s] = "stream_id" =>
              LET r == Head(win[s].confirmed_plays)
              IN Cardinality(TrackRows(tracks, r.provider, r.provider_track_id)) = 1

\* C29: an upsert of a key that exists when the call looks it up returns the
\* id of the row the key was first inserted as and adds no row; the row's
\* title, artist, album, isrc, artwork_url and metadata become those of the
\* call (metadata as it is stored: its JSON text, or null for none), so with
\* unchanged attributes the table is unchanged; no other row changes.
C29_UpsertExistingKeepsId ==
    [][\A s \in Streams :
          (UpsertReturns(s) /\ win[s].track_id # 0) =>
              LET r == Head(win[s].confirmed_plays)
                  id == win'[s].track_id
              IN /\ id = win[s].track_id
                 /\ TrackRows(tracks, r.provider, r.provider_track_id) = {id}
                 /\ \A o \in Streams \ {s} :
                       (pc[o] = "stream_id" /\ SameKey(Head(win[o].confirmed_plays), r))
                       => win[o].track_id = id
                 /\ Len(tracks') = Len(tracks)
                 /\ SameKey(tracks'[id], r)
                 /\ tracks'[id].title = r.title
                 /\ tracks'[id].artist = r.artist
                 /\ tracks'[id].album = r.album
                 /\ tracks'[id].isrc = r.isrc
                 /\ tracks'[id].artwork_url = r.artwork_url
                 /\ tracks'[id].metadata = json_or_none(r.raw_response)
                 /\ \A i \in 1..Len(tracks) : i # id => tracks'[i] = tracks[i]
                 /\ (/\ tracks[id].title = r.title /\ tracks[id].artist = r.artist
                     /\ tracks[id].album = r.album /\ tracks[id].isrc = r.isrc
                     /\ tracks[id].artwork_url = r.artwork_url
                     /\ tracks[id].metadata = json_or_none(r.raw_response))
                    => tracks' = tracks
      ]_vars

\* C29 witness: on an empty store the worker of s1 inserted a track and the
\* worker of s2 then upserted the same key with another title; both hold the
\* same id and the one row carries the second title.
C29_Witness ==
    /\ pc["s1"] = "stream_id"
    /\ pc["s2"] = "stream_id"
    /\ win["s1"].track_id = 1
    /\ win["s2"].track_id = 1
    /\ Len(tracks) = 1
    /\ Head(win["s1"].confirmed_plays).title # Head(win["s2"].confirmed_plays).title
    /\ tracks[1].title = Head(win["s2"].confirmed_plays).title
    /\ tracks[1].metadata = NoneVal

\* C30: recognize never raises, and a timeout, a transport error, a
\* provider-side error response or a malformed response each give a result
\* with a non-empty error_message and empty provider_track_id, title and artist.
C30_FailuresBecomeErrorResults ==
    (last # NoCall
        /\ last.did.kind \in {"timeout", "transport", "provider_error", "malformed"}) =>
        /\ last.ret # ParseRaises
        /\ last.ret.error_message \notin {NoneVal, ""}
        /\ last.ret.provider_track_id = ""
        /\ last.ret.title = ""
        /\ last.ret.artist = ""

\* The step in which worker w dispatches a window to its recognizers
Dispatching(w) ==
    /\ \A p \in Providers : task[<<w, p>>] = "none"
    /\ \E p \in Providers : task'[<<w, p>>] # "none"

\* The step in which recognize_parallel of worker w returns its list
Gathering(w) ==
    /\ \A p \in Providers : task[<<w, p>>] \in {"returned", "skipped"}
    /\ \A p \in Providers : task'[<<w, p>>] = "none"

\* C21: a provider whose gate has no free permit when a dispatch probes it is
\* skipped for that dispatch: its recognizer is never invoked, the list the
\* dispatch returns holds no result of that provider, and the other providers
\* of the dispatch, whose gates are free, are called (or queue for the global
\* gate) and their results are in the list.
C21_BusyProviderSkipped ==
    [][\A w \in Dispatchers : \A p \in Providers :
          /\ (Dispatching(w) /\ psem[p].value = 0) =>
                /\ task'[<<w, p>>] = "skipped"
                /\ \A q \in Providers \ {p} :
                      ~sem_locked(psem[q]) =>
                          task'[<<w, q>>] \in {"inflight", "wait_global"}
          /\ task[<<w, p>>] = "skipped" =>
                /\ outcome[<<w, p>>] = NotCalled
                /\ outcome'[<<w, p>>] = NotCalled
                /\ task'[<<w, p>>] \in {"skipped", "none"}
          /\ (Gathering(w) /\ task[<<w, p>>] = "skipped") =>
                /\ \A i \in DOMAIN gathered'.results :
                      gathered'.results[i].provider # p
                /\ \A q \in Providers \ {p} :
                      (outcome[<<w, q>>] # NotCalled /\ outcome[<<w, q>>] # Raised)
                      => \E i \in DOMAIN gathered'.results :
                            gathered'.results[i] = outcome[<<w, q>>]
      ]_vars

\* C21 witness: a dispatch was gathered in which shazam was skipped at its
\* gate and acoustid was called; the list holds acoustid's result only.
C21_Witness ==
    /\ gathered # NoGather
    /\ gathered.outcomes["shazam"] = NotCalled
    /\ gathered.outcomes["acoustid"] # NotCalled
    /\ gathered.outcomes["acoustid"] # Raised
    /\ Len(gathered.results) = 1
    /\ gathered.results[1].provider = "acoustid"

InFlight == {t \in Tasks : task[t] = "inflight"}
InFlightOf(p) == {t \in InFlight : t[2] = p}

\* C5: at most global_max_inflight_recognitions recognize calls are in
\* flight, and at most per_provider_max_inflight of them for each provider.
C5_InFlightBounded ==
    /\ Cardinality(InFlight) <= limits.global
    /\ \A p \in Providers : Cardinality(InFlightOf(p)) <= limits.per_provider

\* C5 witness: the global gate is full with calls of two workers while a
\* further task waits for it.
C5_Witness ==
    /\ Cardinality(InFlight) = limits.global
    /\ Cardinality({t[1] : t \in InFlight}) >= 2
    /\ \E t \in Tasks : task[t] = "wait_global"

\* C8: no task ever waits for a permit of a per-provider gate.
C8_NeverQueuedOnProvider == \A t \in Tasks : task[t] # "wait_provider"

\* An error result: error_message is set
is_error(r) == r.error_message # NoneVal

\* C31: every result handed to the aggregator is in exactly one of the classes
\* error, no-match and success, and a result for which is_no_match holds
\* never has is_success.
C31_ExactlyOneClass ==
    last # NoCall =>
        LET r == last.result
        IN /\ Cardinality({c \in {"error", "no_match", "success"} :
                              \/ c = "error" /\ is_error(r)
                              \/ c = "no_match" /\ is_no_match(r)
                              \/ c = "success" /\ is_success(r)}) = 1
           /\ is_no_match(r) => ~is_success(r)

\* min(base * 2^(n-1), cap)
ExpectedDelay(n) ==
    LET doubled == restart_backoff_seconds * 2 ^ (n - 1)
    IN IF doubled <= max_backoff_seconds THEN doubled ELSE max_backoff_seconds

ConfirmedSoFar(s) == FeedAll(<<>>, s, fed[s], <<>>).confirmed_plays

\* A play row of stream s for the confirmed result r
PlayRowsOf(s, r) ==
    {row \in BagToSet(plays) :
        /\ row.stream_id \in StreamRows(streams_tbl, s)
        /\ row.recognized_at_utc = r.recognized_at_utc
        /\ row.track_id \in 1..Len(tracks)
        /\ tracks[row.track_id].provider = r.provider
        /\ tracks[row.track_id].provider_track_id = r.provider_track_id}

C34_StartsIncreaseOnHops ==
    /\ \A i \in 1..Len(sw.emitted) :
          sw.emitted[i].start_utc % (sw.hop_seconds * TicksPerSecond) = 0
    /\ \A i, j \in 1..Len(sw.emitted) :
          i < j => sw.emitted[i].start_utc < sw.emitted[j].start_utc

\* C34 witness: two windows have been yielded, the second after a chunk that
\* arrived late enough for a hop to be passed over.
C34_Witness ==
    /\ Len(sw.emitted) >= 2
    /\ sw.emitted[2].start_utc > sw.emitted[1].start_utc + sw.hop_seconds * TicksPerSecond

\* C35: restart() fails with the budget error only after
\* max_restart_attempts restarts in a row: restarts between which the child
\* ran and delivered audio do not add up to the budget.
C35_BudgetCountsConsecutive ==
    \A s \in Streams :
        ffmpeg[s].raised # NoneVal => ffmpeg[s].in_a_row >= max_restart_attempts

\* Windows n and n + 1 of the scheduler start one hop apart and gave results
\* of one provider with one non-empty track id
ConsecutiveHits(s, n) ==
    /\ n + 1 <= Len(fed[s]) /\ n + 1 <= Len(sw.emitted)
    /\ sw.emitted[n + 1].start_utc
           = sw.emitted[n].start_utc + sw.hop_seconds * TicksPerSecond
    /\ Successful(fed[s][n]) /\ Successful(fed[s][n + 1])
    /\ SameKey(fed[s][n], fed[s][n + 1])

\* C36: when the first two windows of a stream are one hop apart and the same
\* provider returns the same non-empty track id for both, the second result
\* is confirmed, however long after each window's end its recognition call
\* started.
C36_ConsecutiveWindowsConfirm ==
    \A s \in Streams :
        (Len(fed[s]) = 2 /\ ConsecutiveHits(s, 1) /\ last # NoCall /\ last.stream = s
            /\ last.result = fed[s][2])
            => last.ret = fed[s][2]

\* No task of _recognize_with_limits is in flight, waiting or still unwinding
GatesIdle == \A t \in Tasks : task[t] \in {"none", "returned", "skipped", "cancelled"}

\* C37: whenever no recognition task is in flight or waiting, after tasks
\* have returned, raised, been skipped or been cancelled by their worker's
\* stop, the global gate and every provider's gate hold all their permits and
\* nobody is queued on them.
C37_NoPermitLeaked ==
    GatesIdle =>
        /\ gsem = Semaphore(limits.global)
        /\ \A p \in Providers : psem[p] = Semaphore(limits.per_provider)

\* C37 witness: the gates are idle after a dispatch of which one task was
\* cancelled and another skipped, while another worker's task returned after
\* its recognizer raised.
C37_Witness ==
    /\ GatesIdle
    /\ \E t, u, v \in Tasks :
          /\ task[t] = "cancelled" /\ task[u] = "skipped" /\ t[1] = u[1]
          /\ task[v] = "returned" /\ outcome[v] = Raised

\* C38: when every recognizer call returns, every recognize_parallel returns:
\* a worker that has dispatched gets its list in the end, and no task stays
\* queued on a gate for ever, although tasks wait for a provider's permit
\* while holding a global one.
C38_DispatchReturns ==
    \A w \in Dispatchers :
        (\E p \in Providers : task[<<w, p>>] # "none")
            ~> (\A p \in Providers : task[<<w, p>>] = "none")

\* C38 witness: one task waits for its provider's permit holding a global
\* one, while another is queued on the global gate.
C38_Witness ==
    \E t, u \in Tasks : task[t] = "wait_provider" /\ task[u] = "wait_global"

\* C39: whatever start_all, stop_all and restart_all calls were made, no
\* worker task is left running outside WorkerManager.workers (so there is at
\* most one live worker task and decoder for a stream name), and no periodic
\* stats task is left running besides the one the manager holds.
C39_NoTaskOutsideManager ==
    /\ mgr.orphans = {}
    /\ mgr.stats_orphans = 0

\* The step in which a write of a confirmed play (upsert_track, _get_stream_id
\* or insert_play) raises and ends the task of worker s
WriteFails(s) ==
    /\ Failing(s)
    /\ pc[s] \in {"upsert", "upsert_write", "stream_id", "insert_play"}

\* The hit of the key of r that a recognizer returns at time t
NextHit(r, t) == RecognitionResult(r.provider, r.provider_track_id, t, NoneVal)

\* C40: when a write of a confirmed play fails, the pending entries of the
\* confirmations still to be stored are already gone and are not put back, no
\* play row exists for them or is written later, and a next hit of such a key
\* fed to the aggregator is not confirmed but becomes a new pending entry.
C40_ConfirmationLostOnFailure ==
    [][\A s \in Streams :
          /\ WriteFails(s) =>
                LET lost == win[s].confirmed_plays
                IN /\ lost # <<>>
                   /\ pending_hits' = pending_hits
                   /\ plays' = plays
                   /\ \A i \in DOMAIN lost :
                         /\ PendingFor(pending_hits', s, lost[i]) = {}
                         /\ PlayRowsOf(s, lost[i]) = {}
                         /\ \A t \in now..LongTime :
                               LET out == process_recognition(pending_hits', s,
                                                              NextHit(lost[i], t))
                               IN /\ out.ret = NoResult
                                  /\ PendingFor(out.pending, s, lost[i]) # {}
          /\ pc[s] = "failed" =>
                /\ pc'[s] = "failed"
                /\ plays' = plays /\ tracks' = tracks /\ pending_hits' = pending_hits
      ]_vars

\* C40 witness: a worker confirmed two plays in one window and its task ended
\* at a write of the first: neither has a play row or a pending entry.
C40_Witness ==
    \E s \in Streams :
        /\ pc[s] = "failed"
        /\ task_exc[s] = "OperationalError"
        /\ Len(ConfirmedSoFar(s)) = 2
        /\ NewPlays = {}
        /\ \A i \in DOMAIN ConfirmedSoFar(s) :
              PendingFor(pending_hits, s, ConfirmedSoFar(s)[i]) = {}

====
